---------------------------- MODULE Spec2Model ----------------------------
(***************************************************************************)
(* A model of the Pebble chat bot (src/chatbot): the conversation context  *)
(* maps of chat.py with their eviction sweep, the chat turn handleChat,    *)
(* the slash commands of main.py and threads.py, and the RAG handler of    *)
(* RagHandler.py over an abstract Qdrant collection.                       *)
(***************************************************************************)
EXTENDS Integers, Sequences, FiniteSets, TLC

(***************************************************************************)
(* Bounds of the model.                                                    *)
(***************************************************************************)
\* Entries appended to one history since its creation or reset.
HistAppends == 20
LifeAppends == 2
RagAppends == 2
\* Temporary files left behind by failed deletions.
RagLeftovers == 0
IngestLeftovers == 1
ImageLeftovers == 0
\* Point ids handed out before the last turn starts.
RagIds == 2
IngestIds == 1
ImageIds == 1
IngestAppends == 4
ImageAppends == 4
\* SpecPair: the entries a history holds when a turn begins
PairAppends == 2
\* SpecActive: the entries a history holds when a turn begins
ActiveAppends == 2
\* SpecThread: the entries a history holds when a turn begins
ThreadAppends == 2
\* SpecColl: point ids, history entries and leftover files
CollIds == 2
CollAppends == 4
CollLeftovers == 0
\* Advances of the clock.
LifeTicks == 3
CtxResults == 3

(***************************************************************************)
(* Program constants.                                                      *)
(***************************************************************************)
\* chat.py:25
maxHistory == 16
\* chat.py:26
historyExpiry == 86400

\* The platform's identities: user ids, thread ids and a text channel.
Users == {1, 2}
ThreadIds == {11}
TextChannels == {20}
Channels == ThreadIds \cup TextChannels

\* discord's channel.type, reduced to thread / text.
ChannelType(c) == IF c \in ThreadIds THEN "thread" ELSE "text"

\* time.time() when the process starts: an epoch time, far beyond the
\* expiry window, so that a defaulted timestamp of 0.0 is always expired.
StartTime == 100000
\* The clock advances by half an expiry window at a time.
TickStep == historyExpiry \div 2

\* The top-level names of main.py. The functions of main.py import
\* active_threads from threads locally, so the module itself has no such name.
MainModuleNames ==
    {"bot", "SlashCommands", "RAGCommands", "register_commands", "legacy_chat",
     "on_message", "on_thread_delete", "on_ready", "main", "handleChat",
     "ThreadCommands", "handle_thread_message",
     "handle_activated_channel_message", "cleanup_deleted_thread",
     "get_rag_handler"}

Tasks == {1}

VARIABLES
    \* chat.py:13-17, the user-keyed maps (defaultdict); convKeys is the
    \* insertion order of the keys of conversations
    conversations, convKeys, fileContexts, imageContexts, imageDescriptions,
    lastInteraction,
    \* chat.py:19-23, the thread-keyed maps
    threadConversations, threadConvKeys, threadFileContexts,
    threadImageContexts, threadImageDescriptions, threadLastInteraction,
    \* threads.py:6
    active_threads,
    \* time.time()
    now,
    \* the chat turns in flight, one per task
    tasks,
    \* per tenant, every entry appended since the history was created or reset
    appendLog, threadAppendLog,
    \* RAGHandler.client: "none" or "connected" (RagHandler.py:19, 35, 44)
    client,
    \* whether the Qdrant server answers
    storeUp,
    \* the points of the collection, and the next fresh point id
    points, nextId,
    \* per point id, the tenant id it was upserted with
    storedUnder,
    \* the temporary files on disk
    tempFiles,
    \* the RAG-facing calls the latest step made, and the command it ran
    ragCalls,
    \* one call of the context assembly: its arguments and what it returned
    assembly,
    \* the collection of the store: whether it exists and whether it has its
    \* tenant index (RagHandler.py:46-82)
    collection,
    \* threads.py:8, the activating user of every activated channel
    active_channels

ctxVars == <<conversations, convKeys, fileContexts, imageContexts,
             imageDescriptions, lastInteraction, threadConversations,
             threadConvKeys, threadFileContexts, threadImageContexts,
             threadImageDescriptions, threadLastInteraction, appendLog,
             threadAppendLog>>
storeVars == <<client, storeUp, points, nextId, storedUnder, tempFiles>>
ragVars == <<storeVars, ragCalls>>
sideVars == <<collection, active_channels>>
vars == <<ctxVars, active_threads, now, tasks, ragVars, assembly, sideVars>>

(***************************************************************************)
(* Python's dict and defaultdict.                                          *)
(***************************************************************************)
Empty == [x \in {} |-> 0]
\* d[k] = v
Put(d, k, v) == [x \in DOMAIN d \cup {k} |-> IF x = k THEN v ELSE d[x]]
\* del d[k], for a key that is present
Del(d, k) == [x \in DOMAIN d \ {k} |-> d[x]]
\* reading d[k] of a defaultdict inserts the default for a missing key
Touch(d, k, default) == IF k \in DOMAIN d THEN d ELSE Put(d, k, default)
\* the insertion order of the keys after d[k] = v or a defaulting read
KeyAdd(keys, d, k) == IF k \in DOMAIN d THEN keys ELSE Append(keys, k)
\* the insertion order of the keys after del d[k]
KeyDel(keys, k) == SelectSeq(keys, LAMBDA x : x # k)
\* s[-n:]
LastN(s, n) == IF Len(s) <= n THEN s ELSE SubSeq(s, Len(s) - n + 1, Len(s))

(***************************************************************************)
(* The five maps of one scope (user or thread) as one bundle, so that the  *)
(* code that works on conv_dict, file_dict, ... is written once.           *)
(***************************************************************************)
UserBundle ==
    [conv |-> conversations, keys |-> convKeys, file |-> fileContexts,
     image |-> imageContexts, desc |-> imageDescriptions,
     time |-> lastInteraction, log |-> appendLog]
ThreadBundle ==
    [conv |-> threadConversations, keys |-> threadConvKeys,
     file |-> threadFileContexts, image |-> threadImageContexts,
     desc |-> threadImageDescriptions, time |-> threadLastInteraction,
     log |-> threadAppendLog]

Commit(ub, tb) ==
    /\ conversations' = ub.conv
    /\ convKeys' = ub.keys
    /\ fileContexts' = ub.file
    /\ imageContexts' = ub.image
    /\ imageDescriptions' = ub.desc
    /\ lastInteraction' = ub.time
    /\ appendLog' = ub.log
    /\ threadConversations' = tb.conv
    /\ threadConvKeys' = tb.keys
    /\ threadFileContexts' = tb.file
    /\ threadImageContexts' = tb.image
    /\ threadImageDescriptions' = tb.desc
    /\ threadLastInteraction' = tb.time
    /\ threadAppendLog' = tb.log

\* Commit the bundle a turn works on, leaving the other scope alone.
CommitScope(isThread, b) ==
    IF isThread THEN Commit(UserBundle, b) ELSE Commit(b, ThreadBundle)

(***************************************************************************)
(* pruneOldConversations, chat.py:28-45.                                   *)
(***************************************************************************)
\* One iteration of a sweep loop for key id: the defaulting read of the
\* timestamp, then the five del statements in order. A del of a missing
\* key raises KeyError and leaves the earlier deletions done.
\* An entry that expires already when its age equals the window.
Stale_AtBoundary(last, t) == t - last >= historyExpiry

\* chat.py:32 and 40: currentTime - lastInteraction[id] > historyExpiry
Stale(last, t) == t - last > historyExpiry

PruneOne(b, id, t) ==
    LET time1 == Touch(b.time, id, 0)
        b0 == [b EXCEPT !.time = time1]
    IN  IF ~Stale(time1[id], t)
        THEN [b |-> b0, raised |-> FALSE]
        ELSE
        LET b1 == [b0 EXCEPT !.conv = Del(b0.conv, id),
                             !.keys = KeyDel(b0.keys, id),
                             !.log = Del(b0.log, id)]
        IN  IF id \notin DOMAIN b1.file THEN [b |-> b1, raised |-> TRUE]
            ELSE
            LET b2 == [b1 EXCEPT !.file = Del(b1.file, id)]
            IN  IF id \notin DOMAIN b2.image THEN [b |-> b2, raised |-> TRUE]
                ELSE
                LET b3 == [b2 EXCEPT !.image = Del(b2.image, id)]
                IN  IF id \notin DOMAIN b3.desc
                    THEN [b |-> b3, raised |-> TRUE]
                    ELSE
                    LET b4 == [b3 EXCEPT !.desc = Del(b3.desc, id)]
                    IN  [b |-> [b4 EXCEPT !.time = Del(b4.time, id)],
                         raised |-> FALSE]

\* for id in list(d.keys()): ...
RECURSIVE PruneLoop(_, _, _)
PruneLoop(b, keys, t) ==
    IF keys = <<>> THEN [b |-> b, raised |-> FALSE]
    ELSE LET r == PruneOne(b, Head(keys), t)
         IN  IF r.raised THEN r ELSE PruneLoop(r.b, Tail(keys), t)

\* A turn that ends without the sweep.
pruneOldConversations_Never(ub, tb, t) ==
    [ub |-> ub, tb |-> tb, raised |-> FALSE]

\* The whole sweep: the user loop, then the thread loop unless the user
\* loop raised.
pruneOldConversations(ub, tb, t) ==
    LET ru == PruneLoop(ub, ub.keys, t)
    IN  IF ru.raised THEN [ub |-> ru.b, tb |-> tb, raised |-> TRUE]
        ELSE LET rt == PruneLoop(tb, tb.keys, t)
             IN  [ub |-> ru.b, tb |-> rt.b, raised |-> rt.raised]

(***************************************************************************)
(* The files a user can attach.  A text is its length and its length after *)
(* strip(); a PDF page is a text, or a page whose extract_text() raises.    *)
(***************************************************************************)
\* Python's None, for an optional integer.
None == -1

Text(len, stripped) == [len |-> len, stripped |-> stripped, fails |-> FALSE]
FailingPage == [len |-> 0, stripped |-> 0, fails |-> TRUE]

MiB == 1024 * 1024
\* chat.py:145 and RagHandler.py:167: the size ceiling, 10 * 1024 * 1024.
MaxFileSize == 10 * MiB

\* attachment.size, in bytes
FileSize(f) ==
    CASE f = "empty.txt" -> 0
      [] f = "blank.txt" -> 3
      [] f = "note.txt" -> 1500
      [] f = "memo.txt" -> 40
      [] f = "book.txt" -> 41000
      [] f = "tome.txt" -> 81000
      [] f = "bad.pdf" -> 1000
      [] f = "doc.pdf" -> MaxFileSize
      [] f = "scan.pdf" -> 2 * MiB
      [] f = "huge.pdf" -> MaxFileSize + 1
      [] f = "long.pdf" -> 3 * MiB
      [] f = "void.pdf" -> 3 * MiB
      [] f = "tool.exe" -> 4096
      [] f = "pic.png" -> 2048

\* len(filename)
FilenameLen(f) == IF f \in {"empty.txt", "blank.txt"} THEN 9 ELSE 8

\* filename.lower().endswith(('.png', '.jpg', ...)), chat.py:149
IsImageName(f) == f = "pic.png"
\* filename.endswith('.txt') and filename.endswith('.pdf')
IsTxtName(f) ==
    f \in {"empty.txt", "blank.txt", "note.txt", "memo.txt", "book.txt",
           "tome.txt"}
IsPdfName(f) ==
    f \in {"doc.pdf", "scan.pdf", "huge.pdf", "bad.pdf", "long.pdf",
           "void.pdf"}

\* The content of a .txt file, as file.read() returns it.
TxtContent(f) ==
    CASE f = "empty.txt" -> Text(0, 0)
      [] f = "blank.txt" -> Text(3, 0)
      [] f = "note.txt" -> Text(1500, 1500)
      [] f = "memo.txt" -> Text(40, 38)
      [] f = "book.txt" -> Text(41000, 41000)
      [] f = "tome.txt" -> Text(81000, 81000)

\* The pages of a .pdf file, as page.extract_text() gives them.
PdfPages(f) ==
    CASE f = "doc.pdf" -> <<Text(500, 500), Text(2, 0), FailingPage, Text(900, 900)>>
      [] f = "scan.pdf" -> <<Text(0, 0), FailingPage, Text(4, 0)>>
      [] f = "huge.pdf" -> <<Text(500, 500)>>
      [] f = "bad.pdf" -> <<>>
      \* 52 pages: text on pages 5, 6, 51 and 52, pages 1 and 7 fail, the
      \* others are blank
      [] f = "long.pdf" -> [i \in 1..52 |->
                               IF i \in {5, 6, 51, 52} THEN Text(10 + i, 10 + i)
                               ELSE IF i \in {1, 7} THEN FailingPage
                               ELSE Text(1, 0)]
      \* 51 pages, none with text
      [] f = "void.pdf" -> [i \in 1..51 |->
                               IF i = 3 THEN FailingPage ELSE Text(0, 0)]

\* A file that PyPDF2.PdfReader cannot read: the constructor raises,
\* RagHandler.py:183.
Unreadable(f) == f = "bad.pdf"

(***************************************************************************)
(* RAGHandler, RagHandler.py.                                              *)
(***************************************************************************)
\* RagHandler.py:25-26
chunk_size == 1000
chunk_overlap == 200

\* Python's truth value of an optional integer.
Truthy(x) == x # None /\ x # 0

\* RagHandler.py:94-99.  The string "thread_<id>" / "user_<id>" is the pair
\* of its prefix and the id: the decimal form of an id is injective and
\* neither prefix is a prefix of the other.
get_tenant_id(user_id, thread_id) ==
    IF Truthy(thread_id) THEN <<"thread", thread_id>>
    ELSE <<"user", user_id>>

\* RagHandler.py:24-28, 213: the lengths of the chunks the text splitter
\* makes of a text without separators: nothing of a text that strips to
\* nothing, else windows of chunk_size that overlap by chunk_overlap.
\* The window after a full one starts chunk_size - chunk_overlap further
\* on; the last window holds what is left.
SplitLens(n) ==
    IF n <= 0 THEN <<>>
    ELSE LET step == chunk_size - chunk_overlap
             full == IF n <= chunk_size THEN 0
                     ELSE (n - chunk_size + step - 1) \div step
         IN  [i \in 1..(full + 1) |->
                 IF i <= full THEN chunk_size ELSE n - full * step]
\* A splitter that keeps the whitespace of a text: a chunk for every text.
split_documents_KeepBlank(document) ==
    LET lens == SplitLens(document.text.len)
    IN  [i \in 1..Len(lens) |->
            [filename |-> document.filename,
             page_number |-> document.page_number,
             content |-> [page |-> document.page_number, part |-> i,
                          len |-> lens[i]]]]

split_documents(document) ==
    LET lens == SplitLens(document.text.stripped)
    IN  [i \in 1..Len(lens) |->
            [filename |-> document.filename,
             page_number |-> document.page_number,
             content |-> [page |-> document.page_number, part |-> i,
                          len |-> lens[i]]]]

Min2(a, b) == IF a < b THEN a ELSE b

\* RagHandler.py:175-179: the documents of a .txt file.
ExtractTxt(f) ==
    IF TxtContent(f).len > 0
    THEN <<[filename |-> f, page_number |-> None, text |-> TxtContent(f)]>>
    ELSE <<>>

\* RagHandler.py:191-201 (and 109-120 for more than 50 pages): the
\* documents of a .pdf file, one per page whose text is not blank; a page
\* whose extraction raises is skipped.
RECURSIVE ExtractPages(_, _, _)
ExtractPages(f, pages, i) ==
    IF i > Len(pages) THEN <<>>
    ELSE (IF ~pages[i].fails /\ pages[i].stripped > 0
          THEN <<[filename |-> f, page_number |-> i, text |-> pages[i]]>>
          ELSE <<>>) \o ExtractPages(f, pages, i + 1)

\* The batches numbered inside each batch instead of through the file.
RECURSIVE ExtractStreaming_BatchNumbers(_, _, _)
ExtractStreaming_BatchNumbers(f, pages, max_pages_per_batch) ==
    IF pages = <<>> THEN <<>>
    ELSE LET n == Min2(max_pages_per_batch, Len(pages))
         IN  ExtractPages(f, SubSeq(pages, 1, n), 1)
             \o ExtractStreaming_BatchNumbers(f,
                    SubSeq(pages, n + 1, Len(pages)), max_pages_per_batch)

\* RagHandler.py:109-120: the pages page_num (from 0) of one batch, in
\* order; page_number is page_num + 1.
RECURSIVE ExtractBatch(_, _, _, _)
ExtractBatch(f, pages, page_num, batch_end) ==
    IF page_num >= batch_end THEN <<>>
    ELSE (IF ~pages[page_num + 1].fails /\ pages[page_num + 1].stripped > 0
          THEN <<[filename |-> f, page_number |-> page_num + 1,
                  text |-> pages[page_num + 1]]>>
          ELSE <<>>) \o ExtractBatch(f, pages, page_num + 1, batch_end)

\* RagHandler.py:106-122: the batches from page i (from 0) on.
RECURSIVE StreamFrom(_, _, _, _)
StreamFrom(f, pages, i, max_pages_per_batch) ==
    IF i >= Len(pages) THEN <<>>
    ELSE ExtractBatch(f, pages, i, Min2(i + max_pages_per_batch, Len(pages)))
         \o StreamFrom(f, pages, i + max_pages_per_batch, max_pages_per_batch)

\* RagHandler.py:101-124, _process_pdf_pages_streaming
ExtractStreaming(f, pages, max_pages_per_batch) ==
    StreamFrom(f, pages, 0, max_pages_per_batch)

\* RagHandler.py:181-204: more than 50 pages are read in batches of 5.
ExtractPdf(f) ==
    IF Len(PdfPages(f)) > 50 THEN ExtractStreaming(f, PdfPages(f), 5)
    ELSE ExtractPages(f, PdfPages(f), 1)

\* RagHandler.py:211-217: the chunks of all the documents, in order.
RECURSIVE ChunkAll(_)
ChunkAll(documents) ==
    IF documents = <<>> THEN <<>>
    ELSE split_documents(Head(documents)) \o ChunkAll(Tail(documents))

\* An embedding batch of five chunks whatever the size of the job.
EmbedBatchSize_Five(nChunks) == 5

\* A storage batch of fifty points whatever the size of the job.
StoreBatchSize_Fifty(nPoints) == 50

\* RagHandler.py:224-227 and 252-255: the batch sizes.
EmbedBatchSize(nChunks) == IF nChunks > 50 THEN 3 ELSE 5
StoreBatchSize(nPoints) == IF nPoints > 100 THEN 25 ELSE 50

\* embed_query: the vector of a text, known by the text it is of.
embed_query(content) == [of |-> content]

\* RagHandler.py:131-140: the embeddings of the batch that follows the
\* first `done` chunks, one awaited call per chunk, in order.
EmbedBatch(chunks, done, batch_size) ==
    LET batch == SubSeq(chunks, done + 1,
                        IF done + batch_size < Len(chunks)
                        THEN done + batch_size ELSE Len(chunks))
    IN  [i \in 1..Len(batch) |-> embed_query(batch[i].content)]

\* RagHandler.py:229-247: the points of zip(chunks, embeddings); ids are
\* fresh (uuid4).
MakePoints(chunks, embeddings, firstId, user_id, thread_id, t) ==
    [i \in 1..(IF Len(chunks) < Len(embeddings) THEN Len(chunks)
               ELSE Len(embeddings)) |->
        [id |-> firstId + i - 1,
         vector |-> embeddings[i],
         tenant_id |-> get_tenant_id(user_id, thread_id),
         filename |-> chunks[i].filename,
         page_number |-> chunks[i].page_number,
         chunk_index |-> i - 1,
         content |-> chunks[i].content,
         user_id |-> user_id,
         thread_id |-> thread_id,
         timestamp |-> t]]

\* The elements of a sequence.
Range(s) == {s[i] : i \in 1..Len(s)}
\* Every order in which a finite set can be listed.
Orders(S) ==
    {o \in [1..Cardinality(S) -> S] : \A i, j \in 1..Cardinality(S) :
        o[i] = o[j] => i = j}

\* The filter left out: every point of the collection matches.
MatchTenant_NoFilter(pts, tenant) == pts

\* The filter of query_points, scroll and delete: must tenant_id = tenant.
\* RagHandler.py:294-301, 378-385, 429-436
MatchTenant(pts, tenant) == {p \in pts : p.tenant_id = tenant}
\* The filter without its condition on the filename.
MatchTenantFile_AnyFile(pts, tenant, filename) ==
    {p \in pts : p.tenant_id = tenant}

\* RagHandler.py:456-467: must tenant_id = tenant and filename = filename.
MatchTenantFile(pts, tenant, filename) ==
    {p \in pts : p.tenant_id = tenant /\ p.filename = filename}

\* What a RAG-facing call hands back: a value, or an exception.
Return(v) == [raised |-> FALSE, value |-> v]
Raise == [raised |-> TRUE, value |-> "exception"]

\* A probe that asks the store and never looks at the client.
check_connection_StoreOnly(cl, up) == up

\* RagHandler.py:84-92: no client, or the probe get_collections() raises.
check_connection(cl, up) == cl # "none" /\ up

\* RagHandler.py:306-317: the result records of the points found, nearest
\* first.  The point's id is kept to tell where a result came from; the
\* code drops it.
ToResults(found) ==
    [i \in 1..Len(found) |->
        [content |-> found[i].content, filename |-> found[i].filename,
         page_number |-> found[i].page_number,
         chunk_index |-> found[i].chunk_index,
         timestamp |-> found[i].timestamp, id |-> found[i].id]]

\* RagHandler.py:279-320.  probe: the liveness probe succeeded; callOk: the
\* store answered query_points; order: the matching points nearest first.
query_documents(pts, user_id, thread_id, limit, probe, callOk, order) ==
    IF ~probe THEN Return(<<>>)
    ELSE IF ~callOk THEN Return(<<>>)
    ELSE Return(ToResults(SubSeq(order, 1,
                                 IF Len(order) < limit THEN Len(order)
                                 ELSE limit)))

\* RagHandler.py:341-349: len(chunk_text) of a result.
Digits(n) == IF n < 10 THEN 1 ELSE IF n < 100 THEN 2 ELSE 3
ChunkTextLen(r) ==
    LET page_info == IF Truthy(r.page_number)
                     THEN 6 + Digits(r.page_number) ELSE 0
        chunk_info == 1 + FilenameLen(r.filename) + page_info + 1
    IN  chunk_info + 1 + r.content.len + 2

\* RagHandler.py:344: page_key = f"{filename}_{page_num}", as the pair it
\* encodes (a page number holds no underscore, so the last underscore of
\* the key splits it back into the two).
PageKey(r) == <<r.filename, r.page_number>>

\* The loop without the test of seen_pages.
RECURSIVE AssembleFrom_NoDedup(_, _, _, _, _, _)
AssembleFrom_NoDedup(results, i, parts, current_length, seen_pages, max) ==
    IF i > Len(results) THEN parts
    ELSE IF current_length + ChunkTextLen(results[i]) > max THEN parts
    ELSE AssembleFrom_NoDedup(results, i + 1, Append(parts, results[i]),
                              current_length + ChunkTextLen(results[i]),
                              seen_pages \cup {PageKey(results[i])}, max)

\* The loop that passes over a chunk that does not fit and goes on.
RECURSIVE AssembleFrom_SkipOverflow(_, _, _, _, _, _)
AssembleFrom_SkipOverflow(results, i, parts, current_length, seen_pages, max) ==
    IF i > Len(results) THEN parts
    ELSE IF PageKey(results[i]) \in seen_pages
    THEN AssembleFrom_SkipOverflow(results, i + 1, parts, current_length,
                                   seen_pages, max)
    ELSE IF current_length + ChunkTextLen(results[i]) > max
    THEN AssembleFrom_SkipOverflow(results, i + 1, parts, current_length,
                                   seen_pages \cup {PageKey(results[i])}, max)
    ELSE AssembleFrom_SkipOverflow(results, i + 1, Append(parts, results[i]),
                      current_length + ChunkTextLen(results[i]),
                      seen_pages \cup {PageKey(results[i])}, max)

\* RagHandler.py:337-355: the loop over the results from index i on, with
\* the parts included so far, their length and the pages seen.
RECURSIVE AssembleFrom(_, _, _, _, _, _)
AssembleFrom(results, i, parts, current_length, seen_pages, max) ==
    IF i > Len(results) THEN parts
    ELSE IF PageKey(results[i]) \in seen_pages
    THEN AssembleFrom(results, i + 1, parts, current_length, seen_pages, max)
    ELSE IF current_length + ChunkTextLen(results[i]) > max THEN parts
    ELSE AssembleFrom(results, i + 1, Append(parts, results[i]),
                      current_length + ChunkTextLen(results[i]),
                      seen_pages \cup {PageKey(results[i])}, max)
ContextParts(results, max) == AssembleFrom(results, 1, <<>>, 0, {}, max)

\* len("RELEVANT DOCUMENT CONTEXT:\n"), RagHandler.py:358
HeaderLen == 27
\* the length of the trailing instruction, RagHandler.py:359-360
TrailerLen == 165

RECURSIVE SumLens(_)
SumLens(parts) ==
    IF parts = <<>> THEN 0
    ELSE ChunkTextLen(Head(parts)) + SumLens(Tail(parts))

\* RagHandler.py:357-363: the context text, as the chunks it holds and its
\* length; the empty string when no chunk was included.
NoContext == [parts |-> <<>>, len |-> 0]

\* The header and the instruction around whatever was included.
ContextText_AlwaysWrap(parts) ==
    [parts |-> parts, len |-> HeaderLen + SumLens(parts) + TrailerLen]

ContextText(parts) ==
    IF parts # <<>>
    THEN [parts |-> parts, len |-> HeaderLen + SumLens(parts) + TrailerLen]
    ELSE NoContext

\* RagHandler.py:322-366.  results: what query_documents returned.
get_context_for_query(results, max_context_length, probe) ==
    IF ~probe THEN Return(NoContext)
    ELSE IF results.raised THEN Return(NoContext)
    ELSE IF results.value = <<>> THEN Return(NoContext)
    ELSE Return(ContextText(ContextParts(results.value, max_context_length)))

\* RagHandler.py:390-413: the listing of the points scroll returned, one
\* entry per filename.  The ids of the points behind an entry are kept to
\* tell where it came from; the code drops them.
FileInfo(listed, filename) ==
    LET mine == SelectSeq(listed, LAMBDA p : p.filename = filename)
        pages == {mine[i].page_number : i \in 1..Len(mine)}
    IN  [filename |-> filename, chunks |-> Len(mine),
         pages |-> Cardinality({n \in pages : Truthy(n)}),
         timestamp |-> mine[1].timestamp,
         ids |-> {mine[i].id : i \in 1..Len(mine)}]
\* RagHandler.py:368-416
list_stored_files(user_id, thread_id, probe, callOk, listed) ==
    IF ~probe THEN Return({})
    ELSE IF ~callOk THEN Return({})
    ELSE Return({FileInfo(listed, f) :
                   f \in {listed[i].filename : i \in 1..Len(listed)}})

\* delete_tenant_data without its except clause: the store's error escapes.
delete_tenant_data_NoExcept(pts, user_id, thread_id, probe, callOk) ==
    IF ~probe THEN [ret |-> Return(FALSE), pts |-> pts]
    ELSE IF ~callOk THEN [ret |-> Raise, pts |-> pts]
    ELSE [ret |-> Return(TRUE),
          pts |-> pts \ MatchTenant(pts, get_tenant_id(user_id, thread_id))]

\* RagHandler.py:418-443: the result and the points left in the store.
delete_tenant_data(pts, user_id, thread_id, probe, callOk) ==
    IF ~probe THEN [ret |-> Return(FALSE), pts |-> pts]
    ELSE IF ~callOk THEN [ret |-> Return(FALSE), pts |-> pts]
    ELSE [ret |-> Return(TRUE),
          pts |-> pts \ MatchTenant(pts, get_tenant_id(user_id, thread_id))]

\* RagHandler.py:445-474
delete_file(pts, filename, user_id, thread_id, probe, callOk) ==
    IF ~probe THEN [ret |-> Return(FALSE), pts |-> pts]
    ELSE IF ~callOk THEN [ret |-> Return(FALSE), pts |-> pts]
    ELSE [ret |-> Return(TRUE),
          pts |-> pts \ MatchTenantFile(pts, get_tenant_id(user_id, thread_id),
                                        filename)]

\* The collection of the store: absent, created without its tenant index,
\* or created with it.
AbsentCollection == [exists |-> FALSE, index |-> FALSE]
BareCollection == [exists |-> TRUE, index |-> FALSE]
ReadyCollection == [exists |-> TRUE, index |-> TRUE]

\* The initialisation that creates the tenant index whenever it is missing.
initialize_collection_EnsureIndex(cl, coll, alive) ==
    IF cl = "none" \/ alive < 1
    THEN [coll |-> coll, created |-> {}, raised |-> FALSE]
    ELSE IF coll.exists
    THEN IF coll.index THEN [coll |-> coll, created |-> {}, raised |-> FALSE]
         ELSE [coll |-> ReadyCollection, created |-> {"index"},
               raised |-> FALSE]
    ELSE IF alive < 2 THEN [coll |-> coll, created |-> {}, raised |-> FALSE]
    ELSE IF alive < 3
         THEN [coll |-> BareCollection, created |-> {"collection"},
               raised |-> FALSE]
         ELSE [coll |-> ReadyCollection, created |-> {"collection", "index"},
               raised |-> FALSE]

\* RagHandler.py:46-82, _initialize_collection.  alive is the number of its
\* store calls (get_collections, create_collection, create_payload_index)
\* that the store answers; the first call that is not answered raises, and
\* the except clause prints and returns.
initialize_collection(cl, coll, alive) ==
    IF cl = "none" THEN [coll |-> coll, created |-> {}, raised |-> FALSE]
    ELSE IF alive < 1 THEN [coll |-> coll, created |-> {}, raised |-> FALSE]
    ELSE IF coll.exists THEN [coll |-> coll, created |-> {}, raised |-> FALSE]
    ELSE IF alive < 2 THEN [coll |-> coll, created |-> {}, raised |-> FALSE]
    ELSE IF alive < 3
         THEN [coll |-> BareCollection, created |-> {"collection"},
               raised |-> FALSE]
         ELSE [coll |-> ReadyCollection, created |-> {"collection", "index"},
               raised |-> FALSE]

(***************************************************************************)
(* The store going down and coming back.  A step that makes n store calls  *)
(* in a row chooses how many of them the store answers: all n when it      *)
(* stays up, fewer when it goes down in between, none when it is down.     *)
(***************************************************************************)
Alive(n) == IF storeUp THEN 1..n ELSE {0}
StoreAfter(alive, n) == storeUp' = (alive = n)

StoreDown ==
    /\ storeUp
    /\ storeUp' = FALSE
    /\ UNCHANGED <<assembly, sideVars>>
    /\ ragCalls' = <<>>
    /\ UNCHANGED <<ctxVars, active_threads, now, tasks, client, points,
                   nextId, storedUnder, tempFiles>>

StoreUp ==
    /\ ~storeUp
    /\ storeUp' = TRUE
    /\ UNCHANGED <<assembly, sideVars>>
    /\ ragCalls' = <<>>
    /\ UNCHANGED <<ctxVars, active_threads, now, tasks, client, points,
                   nextId, storedUnder, tempFiles>>

NoAssembly ==
    [results |-> <<>>, max_context_length |-> 0, called |-> FALSE,
     ret |-> Return(NoContext)]

\* The record of one RAG-facing call: the operation, the tenant arguments,
\* whether the store was unavailable during the call, and what came back.
Call(op, user_id, thread_id, down, ret) ==
    [op |-> op, user_id |-> user_id, thread_id |-> thread_id, down |-> down,
     ret |-> ret]

\* One run of _initialize_collection (RagHandler.py:39, the task created
\* when the handler is constructed).  It makes one store call when the
\* collection exists and three when it does not.
InitializeCollection ==
    /\ \E alive \in Alive(IF collection.exists THEN 1 ELSE 3) :
          LET r == initialize_collection(client, collection, alive)
          IN  /\ collection' = r.coll
              /\ ragCalls' = <<Call("_initialize_collection", None, None,
                                    client = "none" \/ alive < 1,
                                    [raised |-> r.raised, value |-> r.created])>>
              /\ IF client = "none" THEN UNCHANGED storeUp
                 ELSE StoreAfter(alive, IF collection.exists THEN 1 ELSE 3)
    /\ UNCHANGED <<assembly, active_channels>>
    /\ UNCHANGED <<ctxVars, active_threads, now, tasks, client, points,
                   nextId, storedUnder, tempFiles>>

(***************************************************************************)
(* handleChat, chat.py:85-273.                                             *)
(***************************************************************************)
\* What process_and_store_file returns: the success record, or an error
\* record, named by its kind: "unavailable" (RagHandler.py:163), "too_large"
\* (168, the text handleChat sends at chat.py:146), "unsupported" (206),
\* "no_text" (209), "no_chunks" (220), "exception" (266).
NoResult ==
    [kind |-> "none", chunks_stored |-> 0, pages_processed |-> 0,
     tenant_id |-> <<>>]
ErrorResult(kind) == [NoResult EXCEPT !.kind = kind]

\* The ingestion of one attachment: the file, what the job did (ops), and
\* the locals of process_and_store_file.
IdleJob ==
    [file |-> "", ops |-> {}, probe |-> FALSE, tmp |-> FALSE, nDocs |-> 0,
     chunks |-> <<>>, emb |-> <<>>, pts |-> <<>>, nStored |-> 0,
     upserts |-> 0,
     unlink |-> "none", unlinks |-> 0, result |-> NoResult]

IdleTask ==
    [pc |-> "idle", kind |-> "none", user |-> 0, channel |-> 0,
     msg |-> "blank", inThread |-> FALSE, isThread |-> FALSE,
     contextId |-> 0, atts |-> <<>>, job |-> IdleJob, rag |-> FALSE,
     llm |-> <<>>, out |-> <<>>]

\* A finished turn: what it sent and its last ingestion stay visible, the
\* rest of the task is dropped.
Done(t, sent) ==
    [IdleTask EXCEPT !.pc = "done", !.out = Append(t.out, sent),
                     !.job = [IdleJob EXCEPT !.file = t.job.file,
                                             !.ops = t.job.ops,
                                             !.probe = t.job.probe,
                                             !.tmp = t.job.tmp,
                                             !.unlink = t.job.unlink,
                                             !.unlinks = t.job.unlinks,
                                             !.result = t.job.result]]

\* from main import active_threads (chat.py:102): ImportError unless main
\* has the name.
ImportFromMain(name) == name \in MainModuleNames

\* chat.py:87-112: whether the turn is scoped to a thread. A slash
\* interaction takes the first branch, which never looks at the channel.
ResolveIsThread(kind, channel) ==
    /\ kind # "slash"
    /\ ImportFromMain("active_threads")
    /\ ChannelType(channel) = "thread"
    /\ channel \in active_threads

\* Whether the message was sent inside an active thread.
InActiveThread(channel) ==
    ChannelType(channel) = "thread" /\ channel \in active_threads

\* threadId if isThread else None (chat.py:192, 214)
ThreadArg(t) == IF t.isThread THEN t.channel ELSE None

\* chat.py:85-129: resolve the scope and stamp the last interaction.  A
\* slash interaction carries no attachments.
Begin(k, kind, u, c, m, atts, maxLog) ==
    /\ tasks[k].pc \in {"idle", "done"}
    /\ kind = "thread" => InActiveThread(c)
    /\ kind = "prefix" => ~InActiveThread(c)
    /\ kind = "slash" => atts = <<>>
    /\ LET isThread == ResolveIsThread(kind, c)
           id == IF isThread THEN c ELSE u
           b == IF isThread THEN ThreadBundle ELSE UserBundle
       IN  /\ id \in DOMAIN b.log => Len(b.log[id]) + 2 <= maxLog
           /\ CommitScope(isThread, [b EXCEPT !.time = Put(b.time, id, now)])
           /\ tasks' = [tasks EXCEPT ![k] =
                  [IdleTask EXCEPT !.pc = IF m # "blank" THEN "detect"
                                          ELSE "attach",
                                   !.kind = kind, !.user = u, !.channel = c,
                                   !.msg = m, !.inThread = InActiveThread(c),
                                   !.isThread = isThread,
                                   !.contextId = id, !.atts = atts]]
    /\ UNCHANGED <<assembly, sideVars>>
    /\ ragCalls' = <<>>
    /\ UNCHANGED <<active_threads, now, storeVars>>

\* A handler that matches no message.
detect_and_execute_function_NoMatch(message) == ""

\* FunctionCaliing.py:84-101: the result of the first pattern the message
\* matches (the handler's text, or the text of its exception), "" for the
\* None of a message that matches none.
detect_and_execute_function(message) ==
    IF message = "fn" THEN "function_result" ELSE ""

\* chat.py:135-139: the ancillary-API intent match; a result ends the turn.
Detect(k) ==
    /\ tasks[k].pc = "detect"
    /\ LET function_result == detect_and_execute_function(tasks[k].msg)
       IN  tasks' = [tasks EXCEPT ![k] =
              IF function_result # ""
              THEN Done(@, function_result)
              ELSE [@ EXCEPT !.pc = "attach"]]
    /\ UNCHANGED <<assembly, sideVars>>
    /\ ragCalls' = <<>>
    /\ UNCHANGED <<ctxVars, active_threads, now, storeVars>>

\* handleChat leaving the size check to the ingestion.
TooLarge_Unchecked(f) == FALSE

\* chat.py:145
TooLarge(f) == FileSize(f) > MaxFileSize

\* chat.py:143-149, 168-178: the next attachment.  An oversized one ends
\* the turn; an image goes to processFile; anything else is a document.
Attach(k) ==
    /\ tasks[k].pc = "attach"
    /\ LET t == tasks[k]
           f == Head(t.atts)
       IN  tasks' = [tasks EXCEPT ![k] =
               IF t.atts = <<>> THEN [t EXCEPT !.pc = "rag"]
               ELSE IF TooLarge(f)
               THEN Done([t EXCEPT !.job = [IdleJob EXCEPT !.file = f]],
                         "too_large")
               ELSE IF IsImageName(f)
               THEN [t EXCEPT !.pc = "image",
                              !.job = [IdleJob EXCEPT !.file = f]]
               ELSE [t EXCEPT !.pc = "ingest",
                              !.job = [IdleJob EXCEPT !.file = f],
                              !.out = Append(@, "processing_document")]]
    /\ UNCHANGED <<assembly, sideVars>>
    /\ ragCalls' = <<>>
    /\ UNCHANGED <<ctxVars, active_threads, now, storeVars>>

\* chat.py:150-157: processFile gives an error text, which ends the turn,
\* or the image, which goes into the image context.
Image(k) ==
    /\ tasks[k].pc = "image"
    /\ LET t == tasks[k]
           b == IF t.isThread THEN ThreadBundle ELSE UserBundle
       IN  \E ok \in BOOLEAN :
              IF ok
              THEN /\ CommitScope(t.isThread,
                          [b EXCEPT !.image = Put(b.image, t.contextId,
                                                  t.job.file)])
                   /\ tasks' = [tasks EXCEPT ![k] =
                          [t EXCEPT !.pc = "vision",
                                    !.out = Append(@, "processing_image")]]
              ELSE /\ UNCHANGED ctxVars
                   /\ tasks' = [tasks EXCEPT ![k] =
                          Done(t, "Error processing image")]
    /\ UNCHANGED <<assembly, sideVars>>
    /\ ragCalls' = <<>>
    /\ UNCHANGED <<active_threads, now, storeVars>>

\* chat.py:159-166: the vision model gives an error text, which ends the
\* turn, or the description, which overwrites the description slot.
Vision(k) ==
    /\ tasks[k].pc = "vision"
    /\ LET t == tasks[k]
           b == IF t.isThread THEN ThreadBundle ELSE UserBundle
       IN  \E ok \in BOOLEAN :
              IF ok
              THEN /\ CommitScope(t.isThread,
                          [b EXCEPT !.desc = Put(b.desc, t.contextId,
                                                 t.job.file)])
                   /\ tasks' = [tasks EXCEPT ![k] =
                          [t EXCEPT !.pc = "attach", !.atts = Tail(@),
                                    !.out = Append(@, "image_analyzed")]]
              ELSE /\ UNCHANGED ctxVars
                   /\ tasks' = [tasks EXCEPT ![k] =
                          Done(t, "Error analyzing image")]
    /\ UNCHANGED <<assembly, sideVars>>
    /\ ragCalls' = <<>>
    /\ UNCHANGED <<active_threads, now, storeVars>>

\* A turn that goes on to its next attachment whatever the ingestion gave.
AfterIngest_GoOn(t, result) ==
    [t EXCEPT !.job.result = result, !.pc = "attach", !.atts = Tail(@),
              !.out = Append(@, "document_stored")]

\* chat.py:195-208: the turn after process_and_store_file returned: an
\* error record ends the turn with its error.
AfterIngest(t, result) ==
    LET t1 == [t EXCEPT !.job.result = result]
    IN  IF result.kind # "success" THEN Done(t1, result.kind)
        ELSE [t1 EXCEPT !.pc = "attach", !.atts = Tail(@),
                        !.out = Append(@, "document_stored")]

\* RagHandler.py:160-171: the liveness probe, the size check, and the
\* temporary copy.
IngestStart(k) ==
    /\ tasks[k].pc = "ingest"
    /\ LET t == tasks[k]
           f == t.job.file
           probe == check_connection(client, storeUp)
           ops == IF client # "none" THEN {"probe"} ELSE {}
           t1 == [t EXCEPT !.job.probe = probe, !.job.ops = ops]
       IN  IF ~probe
           THEN /\ tasks' = [tasks EXCEPT ![k] =
                       AfterIngest(t1, ErrorResult("unavailable"))]
                /\ ragCalls' = <<Call("process_and_store_file", t.user,
                                      ThreadArg(t), TRUE,
                                      Return(ErrorResult("unavailable")))>>
                /\ UNCHANGED tempFiles
           ELSE IF FileSize(f) > MaxFileSize
           THEN /\ tasks' = [tasks EXCEPT ![k] =
                       AfterIngest(t1, ErrorResult("too_large"))]
                /\ ragCalls' = <<Call("process_and_store_file", t.user,
                                      ThreadArg(t), FALSE,
                                      Return(ErrorResult("too_large")))>>
                /\ UNCHANGED tempFiles
           ELSE /\ tasks' = [tasks EXCEPT ![k] =
                       [t1 EXCEPT !.pc = "extract", !.job.tmp = TRUE,
                                  !.job.ops = ops \cup {"save"}]]
                /\ tempFiles' = tempFiles \cup {<<k, f>>}
                /\ ragCalls' = <<>>
    /\ UNCHANGED <<assembly, sideVars>>
    /\ UNCHANGED <<ctxVars, active_threads, now, client, storeUp, points,
                   nextId, storedUnder>>

\* RagHandler.py:173-220: extraction and chunking.
IngestExtract(k) ==
    /\ tasks[k].pc = "extract"
    /\ LET t == tasks[k]
           f == t.job.file
           documents == IF IsTxtName(f) THEN ExtractTxt(f)
                        ELSE IF IsPdfName(f) THEN ExtractPdf(f) ELSE <<>>
           chunks == ChunkAll(documents)
           fail(kind) == [t EXCEPT !.pc = "finally",
                                   !.job.result = ErrorResult(kind)]
       IN  tasks' = [tasks EXCEPT ![k] =
               IF ~IsTxtName(f) /\ ~IsPdfName(f) THEN fail("unsupported")
               ELSE IF Unreadable(f) THEN fail("exception")
               ELSE IF documents = <<>> THEN fail("no_text")
               ELSE IF chunks = <<>> THEN fail("no_chunks")
               ELSE [t EXCEPT !.pc = "embed", !.job.nDocs = Len(documents),
                              !.job.chunks = chunks]]
    /\ UNCHANGED <<assembly, sideVars>>
    /\ ragCalls' = <<>>
    /\ UNCHANGED <<ctxVars, active_threads, now, storeVars>>

Min(a, b) == IF a < b THEN a ELSE b

\* RagHandler.py:126-145, 222-250: one batch of embeddings, which may
\* raise; after the last batch the points are built.
IngestEmbed(k) ==
    /\ tasks[k].pc = "embed"
    /\ LET t == tasks[k]
           n == Len(t.job.chunks)
           embeddings == t.job.emb \o EmbedBatch(t.job.chunks, Len(t.job.emb),
                                                 EmbedBatchSize(n))
           done == Len(embeddings)
       IN  \E ok \in BOOLEAN :
              IF ~ok
              THEN /\ tasks' = [tasks EXCEPT ![k] =
                          [t EXCEPT !.pc = "finally",
                                    !.job.ops = @ \cup {"embed"},
                                    !.job.result = ErrorResult("exception")]]
                   /\ UNCHANGED nextId
              ELSE IF done < n
              THEN /\ tasks' = [tasks EXCEPT ![k] =
                          [t EXCEPT !.job.emb = embeddings,
                                    !.job.ops = @ \cup {"embed"}]]
                   /\ UNCHANGED nextId
              ELSE /\ tasks' = [tasks EXCEPT ![k] =
                          [t EXCEPT !.pc = "store", !.job.emb = embeddings,
                                    !.job.ops = @ \cup {"embed"},
                                    !.job.pts = MakePoints(t.job.chunks,
                                        embeddings,
                                        nextId, t.user, ThreadArg(t), now)]]
                   /\ nextId' = nextId + n
    /\ UNCHANGED <<assembly, sideVars>>
    /\ ragCalls' = <<>>
    /\ UNCHANGED <<ctxVars, active_threads, now, client, storeUp, points,
                   storedUnder, tempFiles>>

\* An upsert that replaces the collection by the batch.
Upsert_Replace(pts, batch) == Range(batch)

\* What upsert does to the collection.
Upsert(pts, batch) == pts \cup Range(batch)

\* RagHandler.py:147-157, 252-263: one batch of upsert, which raises when
\* the store is down; after the last batch the job succeeds.
IngestStore(k) ==
    /\ tasks[k].pc = "store"
    /\ LET t == tasks[k]
           n == Len(t.job.pts)
           done == Min(t.job.nStored + StoreBatchSize(n), n)
           batch == SubSeq(t.job.pts, t.job.nStored + 1, done)
       IN  \* an upsert into a collection that does not exist raises too
           IF ~storeUp \/ ~collection.exists
           THEN /\ tasks' = [tasks EXCEPT ![k] =
                       [t EXCEPT !.pc = "finally", !.job.probe = FALSE,
                                 !.job.ops = @ \cup {"upsert"},
                                 !.job.upserts = @ + 1,
                                 !.job.result = ErrorResult("exception")]]
                /\ UNCHANGED <<points, storedUnder>>
           ELSE /\ points' = Upsert(points, batch)
                /\ storedUnder' =
                       [i \in DOMAIN storedUnder \cup {p.id : p \in Range(batch)}
                          |-> IF i \in DOMAIN storedUnder THEN storedUnder[i]
                              ELSE get_tenant_id(t.user, ThreadArg(t))]
                /\ tasks' = [tasks EXCEPT ![k] =
                       IF done < n
                       THEN [t EXCEPT !.job.nStored = done,
                                      !.job.upserts = @ + 1,
                                      !.job.ops = @ \cup {"upsert"}]
                       ELSE [t EXCEPT !.pc = "finally", !.job.nStored = done,
                                      !.job.upserts = @ + 1,
                                      !.job.ops = @ \cup {"upsert"},
                                      !.job.result =
                                          [kind |-> "success",
                                           chunks_stored |-> Len(t.job.chunks),
                                           pages_processed |-> t.job.nDocs,
                                           tenant_id |-> get_tenant_id(t.user,
                                               ThreadArg(t))]]]
    /\ UNCHANGED <<assembly, sideVars>>
    /\ ragCalls' = <<>>
    /\ UNCHANGED <<ctxVars, active_threads, now, client, storeUp, nextId,
                   tempFiles>>

\* The clean-up without its second attempt.
Unlink_NoRetry(outcome) == [attempts |-> 1, removed |-> outcome = "first"]

\* RagHandler.py:269-277: unlink() of the temporary copy, once more after a
\* delay if it raises, and no more.  outcome: the attempt that removes the
\* file, "first" or "second", or "never" when both raise.
Unlink(outcome) ==
    IF outcome = "first" THEN [attempts |-> 1, removed |-> TRUE]
    ELSE [attempts |-> 2, removed |-> outcome = "second"]

\* RagHandler.py:268-277: the finally clause; then the job's result goes
\* back to the turn.  unlink() raises only while fewer than maxLeft files
\* were left behind.
IngestFinally(k, maxLeft) ==
    /\ tasks[k].pc = "finally"
    /\ LET t == tasks[k]
           left == Cardinality(tempFiles \ {<<k, t.job.file>>})
       IN  \E outcome \in IF left < maxLeft THEN {"first", "second", "never"}
                          ELSE {"first"} :
              LET u == Unlink(outcome)
              IN  /\ tempFiles' = IF u.removed
                                  THEN tempFiles \ {<<k, t.job.file>>}
                                  ELSE tempFiles
                  /\ tasks' = [tasks EXCEPT ![k] =
                         AfterIngest([t EXCEPT !.job.tmp = ~u.removed,
                                               !.job.ops = @ \cup {"unlink"},
                                               !.job.unlink = outcome,
                                               !.job.unlinks = u.attempts],
                                     t.job.result)]
                  /\ ragCalls' = <<Call("process_and_store_file", t.user,
                                        ThreadArg(t), ~t.job.probe,
                                        Return(t.job.result))>>
    /\ UNCHANGED <<assembly, sideVars>>
    /\ UNCHANGED <<ctxVars, active_threads, now, client, storeUp, points,
                   nextId, storedUnder>>

\* chat.py:212-217: the RAG context of a non-blank message.  Three store
\* calls in a row: the probe of get_context_for_query, the probe of
\* query_documents, and query_points.
Rag(k) ==
    /\ tasks[k].pc = "rag"
    /\ LET t == tasks[k]
           tenant == get_tenant_id(t.user, ThreadArg(t))
       IN  IF t.msg = "blank"
           THEN /\ tasks' = [tasks EXCEPT ![k].pc = "compose"]
                /\ ragCalls' = <<>>
                /\ UNCHANGED storeUp
           ELSE \E alive \in Alive(3) :
                \E order \in Orders(MatchTenant(points, tenant)) :
                  LET conn == client # "none"
                      found == query_documents(points, t.user, ThreadArg(t),
                                   15, conn /\ alive >= 2, alive >= 3, order)
                      context == get_context_for_query(found, 3000,
                                     conn /\ alive >= 1)
                  IN  /\ tasks' = [tasks EXCEPT ![k].pc = "compose",
                             ![k].rag = ~context.raised
                                        /\ context.value # NoContext]
                      /\ IF conn THEN StoreAfter(alive, 3)
                         ELSE UNCHANGED storeUp
                      /\ ragCalls' =
                            (IF conn /\ alive >= 1
                             THEN <<Call("query_documents", t.user,
                                         ThreadArg(t), alive < 3, found)>>
                             ELSE <<>>)
                            \o <<Call("get_context_for_query", t.user,
                                      ThreadArg(t), ~(conn /\ alive >= 3),
                                      context)>>
    /\ UNCHANGED <<assembly, sideVars>>
    /\ UNCHANGED <<ctxVars, active_threads, now, client, points, nextId,
                   storedUnder, tempFiles>>

\* A system context that opens with the image description.
SystemContext_ImageFirst(rag, file, desc) ==
    LET parts == (IF desc # "" THEN <<"image_description">> ELSE <<>>)
                 \o (IF rag THEN <<"rag">> ELSE <<>>)
                 \o (IF file # "" THEN <<"legacy_file">> ELSE <<>>)
    IN  (IF parts # <<>> THEN Append(parts, "use_above")
         ELSE <<"answer_normally">>) \o <<"preamble">>

\* chat.py:210-246: the system context, as the list of its parts: the
\* context parts, the sentence on their use (or, with no part, the
\* sentence that there is none), and the fixed text that follows.
SystemContext(rag, file, desc) ==
    LET parts == (IF rag THEN <<"rag">> ELSE <<>>)
                 \o (IF file # "" THEN <<"legacy_file">> ELSE <<>>)
                 \o (IF desc # "" THEN <<"image_description">> ELSE <<>>)
    IN  (IF parts # <<>> THEN Append(parts, "use_above")
         ELSE <<"answer_normally">>) \o <<"preamble">>

\* The user entry appended without the cut.
AppendUser_NoCut(conv, entry) == Append(conv, entry)

\* chat.py:248-250: append the user entry, keep the last maxHistory.
AppendUser(conv, entry) ==
    LET c == Append(conv, entry)
    IN  IF Len(c) > maxHistory THEN LastN(c, maxHistory) ELSE c

\* An assistant entry put at the head of the history.
AppendAssistant_Front(conv, entry) == <<entry>> \o conv

\* chat.py:266: append the assistant entry.
AppendAssistant(conv, entry) == Append(conv, entry)

\* chat.py:219-266, which holds no suspension point (the model call of
\* chat.py:252 is a synchronous call): the defaulting reads of file_dict and
\* desc_dict, the user entry, the model call on the history (which may
\* raise) and the assistant entry.  An entry names the task that appended
\* it; llm is the history the model was called with.
Compose(k) ==
    /\ tasks[k].pc = "compose"
    /\ LET t == tasks[k]
           id == t.contextId
           b == IF t.isThread THEN ThreadBundle ELSE UserBundle
           file1 == Touch(b.file, id, "")
           desc1 == Touch(b.desc, id, "")
           conv0 == Touch(b.conv, id, <<>>)
           log0 == Touch(b.log, id, <<>>)
           uEntry == [role |-> "user", n |-> Len(log0[id]) + 1, task |-> k,
                      ctx |-> SystemContext(t.rag, file1[id], desc1[id])]
           aEntry == [role |-> "assistant", n |-> Len(log0[id]) + 2,
                      task |-> k, ctx |-> <<>>]
           convU == AppendUser(conv0[id], uEntry)
           bU == [b EXCEPT !.file = file1, !.desc = desc1,
                           !.keys = KeyAdd(b.keys, b.conv, id),
                           !.conv = Put(conv0, id, convU),
                           !.log = Put(log0, id, Append(log0[id], uEntry))]
           bA == [bU EXCEPT !.conv = Put(bU.conv, id,
                                         AppendAssistant(convU, aEntry)),
                            !.log = Put(bU.log, id, Append(bU.log[id], aEntry))]
       IN  \E llmOk \in BOOLEAN :
              IF llmOk
              THEN /\ CommitScope(t.isThread, bA)
                   /\ tasks' = [tasks EXCEPT ![k].pc = "send",
                                             ![k].llm = convU]
              ELSE /\ CommitScope(t.isThread, bU)
                   /\ tasks' = [tasks EXCEPT ![k].pc = "except",
                                             ![k].llm = convU]
    /\ UNCHANGED <<assembly, sideVars>>
    /\ ragCalls' = <<>>
    /\ UNCHANGED <<active_threads, now, storeVars>>

\* chat.py:267-269: the response is sent, then the sweep runs.
Respond(k) ==
    /\ tasks[k].pc = "send"
    /\ LET r == pruneOldConversations(UserBundle, ThreadBundle, now)
       IN  /\ Commit(r.ub, r.tb)
           /\ tasks' = [tasks EXCEPT ![k] =
                  IF r.raised
                  THEN [@ EXCEPT !.pc = "except", !.out = Append(@, "response")]
                  ELSE Done(@, "response")]
    /\ UNCHANGED <<assembly, sideVars>>
    /\ ragCalls' = <<>>
    /\ UNCHANGED <<active_threads, now, storeVars>>

\* chat.py:271-273: any exception of the turn is reported to the user.
Except(k) ==
    /\ tasks[k].pc = "except"
    /\ tasks' = [tasks EXCEPT ![k] = Done(@, "error")]
    /\ UNCHANGED <<assembly, sideVars>>
    /\ ragCalls' = <<>>
    /\ UNCHANGED <<ctxVars, active_threads, now, storeVars>>

(***************************************************************************)
(* SlashCommands.reset, main.py:23-64.                                     *)
(***************************************************************************)
\* threadId of the docs commands and of reset: the channel when it is an
\* active thread (main.py:33-34, 104-108).
CommandThread(c) == IF InActiveThread(c) THEN c ELSE None

\* A reset that leaves the history alone.
ResetBundle_KeepHistory(b, id) ==
    [b EXCEPT !.file = Put(b.file, id, ""),
              !.image = Put(b.image, id, ""),
              !.desc = Put(b.desc, id, "")]

\* main.py:38-41 and 51-54: the four assignments.
ResetBundle(b, id) ==
    [b EXCEPT !.keys = KeyAdd(b.keys, b.conv, id),
              !.conv = Put(b.conv, id, <<>>),
              !.file = Put(b.file, id, ""),
              !.image = Put(b.image, id, ""),
              !.desc = Put(b.desc, id, ""),
              !.log = Put(b.log, id, <<>>)]

\* main.py:45-62: the confirmation, as the scope it names and what it says
\* of the knowledge bases.
ResetMessage(isInThread, user_rag_cleared, thread_rag_cleared) ==
    IF ~isInThread
    THEN [scope |-> "user_only",
          cleared |-> IF user_rag_cleared THEN "knowledge_base" ELSE "nothing"]
    ELSE [scope |-> "user_and_thread",
          cleared |-> IF user_rag_cleared /\ thread_rag_cleared THEN "all"
                      ELSE IF user_rag_cleared \/ thread_rag_cleared
                      THEN "some" ELSE "nothing"]

\* The user's maps and knowledge base are cleared, then, inside an active
\* thread, the thread's.  Up to four store calls: a probe and a delete for
\* each of the two.  The last call recorded is the command itself with the
\* confirmation it sends.
Reset(u, c) ==
    /\ \E alive \in Alive(IF InActiveThread(c) THEN 4 ELSE 2) :
          LET conn == client # "none"
              d1 == delete_tenant_data(points, u, None, conn /\ alive >= 1,
                                       alive >= 2)
              d2 == delete_tenant_data(d1.pts, u, c, conn /\ alive >= 3,
                                       alive >= 4)
              c1 == Call("delete_tenant_data", u, None, ~(conn /\ alive >= 2),
                         d1.ret)
              c2 == Call("delete_tenant_data", u, c, ~(conn /\ alive >= 4),
                         d2.ret)
              sent(msg) == Call("reset", u, CommandThread(c), FALSE,
                                Return(msg))
          IN  IF InActiveThread(c)
              THEN /\ Commit(ResetBundle(UserBundle, u),
                             ResetBundle(ThreadBundle, c))
                   /\ points' = d2.pts
                   /\ ragCalls' = <<c1, c2,
                                    sent(ResetMessage(TRUE, d1.ret.value,
                                                      d2.ret.value))>>
                   /\ IF conn THEN StoreAfter(alive, 4) ELSE UNCHANGED storeUp
              ELSE /\ Commit(ResetBundle(UserBundle, u), ThreadBundle)
                   /\ points' = d1.pts
                   /\ ragCalls' = <<c1,
                                    sent(ResetMessage(FALSE, d1.ret.value,
                                                      FALSE))>>
                   /\ IF conn THEN StoreAfter(alive, 2) ELSE UNCHANGED storeUp
    /\ UNCHANGED <<assembly, sideVars>>
    /\ UNCHANGED <<active_threads, now, tasks, client, nextId, storedUnder,
                   tempFiles>>

\* main.py:77-84, 86-93: what the history command reports of a scope.
HistoryStatus(scope, found, conv, file, desc) ==
    [scope |-> scope, found |-> found,
     messages |-> IF found THEN Len(conv) ELSE 0,
     hasFile |-> found /\ file # "", hasImage |-> found /\ desc # ""]

\* SlashCommands.history, main.py:66-93: the status of the thread's
\* conversation inside an active thread, else of the user's; the membership
\* test, then the defaulting reads of the file and description maps.
History(u, c) ==
    /\ LET inThread == InActiveThread(c)
           b == IF inThread THEN ThreadBundle ELSE UserBundle
           id == IF inThread THEN c ELSE u
           scope == IF inThread THEN "thread" ELSE "personal"
           file1 == Touch(b.file, id, "")
           desc1 == Touch(b.desc, id, "")
       IN  IF id \in DOMAIN b.conv
           THEN /\ CommitScope(inThread,
                       [b EXCEPT !.file = file1, !.desc = desc1])
                /\ ragCalls' = <<Call("history", u, CommandThread(c), FALSE,
                                      Return(HistoryStatus(scope, TRUE,
                                          b.conv[id], file1[id],
                                          desc1[id])))>>
           ELSE /\ UNCHANGED ctxVars
                /\ ragCalls' = <<Call("history", u, CommandThread(c), FALSE,
                                      Return(HistoryStatus(scope, FALSE,
                                          <<>>, "", "")))>>
    /\ UNCHANGED <<assembly, sideVars>>
    /\ UNCHANGED <<active_threads, now, tasks, storeVars>>

(***************************************************************************)
(* RAGCommands, main.py:95-211.  Each makes two store calls in a row: the  *)
(* probe and the operation.                                                *)
(***************************************************************************)
\* main.py:99-128
DocsList(u, c) ==
    /\ \E alive \in Alive(2) :
       \E listed \in Orders(MatchTenant(points,
                                        get_tenant_id(u, CommandThread(c)))) :
          LET conn == client # "none"
          IN  /\ ragCalls' = <<Call("list_stored_files", u, CommandThread(c),
                                    ~(conn /\ alive >= 2),
                                    list_stored_files(u, CommandThread(c),
                                        conn /\ alive >= 1, alive >= 2,
                                        listed))>>
              /\ IF conn THEN StoreAfter(alive, 2) ELSE UNCHANGED storeUp
    /\ UNCHANGED <<assembly, sideVars>>
    /\ UNCHANGED <<ctxVars, active_threads, now, tasks, client, points,
                   nextId, storedUnder, tempFiles>>

\* main.py:130-151
DocsClear(u, c) ==
    /\ \E alive \in Alive(2) :
          LET conn == client # "none"
              d == delete_tenant_data(points, u, CommandThread(c),
                                      conn /\ alive >= 1, alive >= 2)
          IN  /\ points' = d.pts
              /\ ragCalls' = <<Call("delete_tenant_data", u, CommandThread(c),
                                    ~(conn /\ alive >= 2), d.ret)>>
              /\ IF conn THEN StoreAfter(alive, 2) ELSE UNCHANGED storeUp
    /\ UNCHANGED <<assembly, sideVars>>
    /\ UNCHANGED <<ctxVars, active_threads, now, tasks, client, nextId,
                   storedUnder, tempFiles>>

\* main.py:153-173
DocsDelete(u, c, f) ==
    /\ \E alive \in Alive(2) :
          LET conn == client # "none"
              d == delete_file(points, f, u, CommandThread(c),
                               conn /\ alive >= 1, alive >= 2)
          IN  /\ points' = d.pts
              /\ ragCalls' = <<Call("delete_file", u, CommandThread(c),
                                    ~(conn /\ alive >= 2), d.ret)>>
              /\ IF conn THEN StoreAfter(alive, 2) ELSE UNCHANGED storeUp
    /\ UNCHANGED <<assembly, sideVars>>
    /\ UNCHANGED <<ctxVars, active_threads, now, tasks, client, nextId,
                   storedUnder, tempFiles>>

\* main.py:175-211
DocsSearch(u, c) ==
    /\ \E alive \in Alive(2) :
       \E order \in Orders(MatchTenant(points,
                                       get_tenant_id(u, CommandThread(c)))) :
          LET conn == client # "none"
          IN  /\ ragCalls' = <<Call("query_documents", u, CommandThread(c),
                                    ~(conn /\ alive >= 2),
                                    query_documents(points, u,
                                        CommandThread(c), 8,
                                        conn /\ alive >= 1, alive >= 2,
                                        order))>>
              /\ IF conn THEN StoreAfter(alive, 2) ELSE UNCHANGED storeUp
    /\ UNCHANGED <<assembly, sideVars>>
    /\ UNCHANGED <<ctxVars, active_threads, now, tasks, client, points,
                   nextId, storedUnder, tempFiles>>

(***************************************************************************)
(* Threads, threads.py.                                                    *)
(***************************************************************************)
\* threads.py:60-110: chat_thread / chat_thread_public create a thread.
ChatThread(c) ==
    /\ c \in ThreadIds \ active_threads
    /\ active_threads' = active_threads \cup {c}
    /\ UNCHANGED <<assembly, sideVars>>
    /\ ragCalls' = <<>>
    /\ UNCHANGED <<ctxVars, now, tasks, storeVars>>

\* threads.py:112-121
EndThread(c) ==
    /\ ChannelType(c) = "thread"
    /\ c \in active_threads
    /\ active_threads' = active_threads \ {c}
    /\ UNCHANGED <<assembly, sideVars>>
    /\ ragCalls' = <<>>
    /\ UNCHANGED <<ctxVars, now, tasks, storeVars>>

\* threads.py:14-38, activate: refused in a thread and in a channel that
\* is activated already, by whomever; the check and the assignment have no
\* suspension point between them.
activate(channels, channel_id, user_id) ==
    IF ChannelType(channel_id) = "thread"
    THEN [channels |-> channels, said |-> "threads_only"]
    ELSE IF channel_id \in DOMAIN channels
    THEN [channels |-> channels,
          said |-> IF channels[channel_id] = user_id THEN "already_yours"
                   ELSE "already_taken"]
    ELSE [channels |-> Put(channels, channel_id, user_id),
          said |-> "activated"]

\* threads.py:40-58, deactivate
deactivate(channels, channel_id, user_id) ==
    IF ChannelType(channel_id) = "thread"
    THEN [channels |-> channels, said |-> "threads_only"]
    ELSE IF channel_id \notin DOMAIN channels
    THEN [channels |-> channels, said |-> "not_activated"]
    ELSE IF channels[channel_id] # user_id
    THEN [channels |-> channels, said |-> "not_yours"]
    ELSE [channels |-> Del(channels, channel_id), said |-> "deactivated"]

\* The automatic handling that answers every author.
handle_activated_channel_message_AnyAuthor(channels, channel_id, author) ==
    ChannelType(channel_id) = "text" /\ channel_id \in DOMAIN channels

\* threads.py:148-159: whether the message is handled as a chat turn
handle_activated_channel_message(channels, channel_id, author) ==
    /\ ChannelType(channel_id) = "text"
    /\ channel_id \in DOMAIN channels
    /\ channels[channel_id] = author

Activate(u, c) ==
    /\ LET r == activate(active_channels, c, u)
       IN  /\ active_channels' = r.channels
           /\ ragCalls' = <<Call("activate", u, c, FALSE, Return(r.said))>>
    /\ UNCHANGED <<assembly, collection>>
    /\ UNCHANGED <<ctxVars, active_threads, now, tasks, storeVars>>

Deactivate(u, c) ==
    /\ LET r == deactivate(active_channels, c, u)
       IN  /\ active_channels' = r.channels
           /\ ragCalls' = <<Call("deactivate", u, c, FALSE, Return(r.said))>>
    /\ UNCHANGED <<assembly, collection>>
    /\ UNCHANGED <<ctxVars, active_threads, now, tasks, storeVars>>

\* main.py:229-239, on_message for a message that is no command and was
\* not sent in an active thread: a chat turn when the activated-channel
\* handler takes it, nothing otherwise.
ActivatedMessage(k, u, c, m, maxLog) ==
    /\ ~InActiveThread(c)
    /\ tasks[k].pc \in {"idle", "done"}
    /\ IF handle_activated_channel_message(active_channels, c, u)
       THEN Begin(k, "activated", u, c, m, <<>>, maxLog)
       ELSE /\ ragCalls' = <<Call("on_message", u, c, FALSE,
                                  Return("ignored"))>>
            /\ UNCHANGED <<assembly, sideVars>>
            /\ UNCHANGED <<ctxVars, active_threads, now, tasks, storeVars>>

\* threads.py:161-180, cleanup_deleted_thread: nothing unless the thread is
\* an active one; then it leaves active_threads and each of the five maps
\* drops its key if it has it.  Del leaves a map without the key alone.
cleanup_deleted_thread(tb, active, thread_id) ==
    IF thread_id \in active
    THEN [active |-> active \ {thread_id},
          tb |-> [tb EXCEPT !.conv = Del(tb.conv, thread_id),
                            !.keys = KeyDel(tb.keys, thread_id),
                            !.log = Del(tb.log, thread_id),
                            !.file = Del(tb.file, thread_id),
                            !.image = Del(tb.image, thread_id),
                            !.desc = Del(tb.desc, thread_id),
                            !.time = Del(tb.time, thread_id)]]
    ELSE [active |-> active, tb |-> tb]

\* main.py:241-243, on_thread_delete: Discord reports that thread c was
\* deleted.
ThreadDelete(c) ==
    /\ ChannelType(c) = "thread"
    /\ LET r == cleanup_deleted_thread(ThreadBundle, active_threads, c)
       IN  /\ active_threads' = r.active
           /\ Commit(UserBundle, r.tb)
    /\ ragCalls' = <<Call("on_thread_delete", None, c, FALSE, Return(""))>>
    /\ UNCHANGED <<assembly, sideVars>>
    /\ UNCHANGED <<now, tasks, storeVars>>

(***************************************************************************)
(* The clock.                                                              *)
(***************************************************************************)
Tick(maxTicks) ==
    /\ now < StartTime + maxTicks * TickStep
    /\ now' = now + TickStep
    /\ UNCHANGED <<assembly, sideVars>>
    /\ ragCalls' = <<>>
    /\ UNCHANGED <<ctxVars, active_threads, tasks, storeVars>>

(***************************************************************************)
(* The specification.                                                      *)
(***************************************************************************)
InitCore ==
    /\ conversations = Empty /\ convKeys = <<>>
    /\ fileContexts = Empty /\ imageContexts = Empty
    /\ imageDescriptions = Empty /\ lastInteraction = Empty
    /\ threadConversations = Empty /\ threadConvKeys = <<>>
    /\ threadFileContexts = Empty /\ threadImageContexts = Empty
    /\ threadImageDescriptions = Empty /\ threadLastInteraction = Empty
    /\ appendLog = Empty /\ threadAppendLog = Empty
    /\ active_threads = {}
    /\ now = StartTime
    \* RagHandler.py:32-44: the client is kept only when the store answered
    \* at construction
    /\ storeUp \in BOOLEAN
    /\ client = IF storeUp THEN "connected" ELSE "none"
    /\ points = {} /\ nextId = 1 /\ storedUnder = Empty
    /\ tempFiles = {}
    /\ ragCalls = <<>>
    \* threads.py:8
    /\ active_channels = Empty

\* The store holds the collection with its index, from an earlier run.
InitState == InitCore /\ collection = ReadyCollection

\* One turn in flight at a time.
InitBase == InitState /\ tasks = [k \in Tasks |-> IdleTask]

Init == InitBase /\ assembly = NoAssembly

\* The program started while the store was unreachable.
InitNoStore == Init /\ ~storeUp

\* The steps of a turn in flight, but for those of its attachments.
ChatStep(k) ==
    \/ Detect(k)
    \/ Attach(k)
    \/ Rag(k)
    \/ Compose(k)
    \/ Respond(k)
    \/ Except(k)

\* The steps of an image attachment.
ImageStep(k) ==
    \/ Image(k)
    \/ Vision(k)

\* The steps of process_and_store_file.
IngestStep(k, maxLeft) ==
    \/ IngestStart(k)
    \/ IngestExtract(k)
    \/ IngestEmbed(k)
    \/ IngestStore(k)
    \/ IngestFinally(k, maxLeft)

\* The conversation lifecycle: two users, a thread, short histories and a
\* clock that runs past the expiry window.
NextLife ==
    \/ \E k \in Tasks, kind \in {"prefix", "thread"}, u \in Users,
          c \in Channels, m \in {"fn", "plain"} :
          Begin(k, kind, u, c, m, <<>>, LifeAppends)
    \/ \E k \in Tasks : ChatStep(k)
    \/ \E u \in Users, c \in Channels : Reset(u, c)
    \/ \E c \in ThreadIds : ChatThread(c)
    \/ \E c \in ThreadIds : EndThread(c)
    \/ Tick(LifeTicks)

SpecLife == InitNoStore /\ [][NextLife]_vars

\* Long histories: one user chatting up to HistAppends entries.
NextHist ==
    \/ \E k \in Tasks :
          Begin(k, "prefix", 1, 20, "plain", <<>>, HistAppends)
    \/ \E k \in Tasks : ChatStep(k)
    \/ Reset(1, 20)

SpecHist == InitNoStore /\ [][NextHist]_vars

\* What the user of the images attaches to a turn.
ImageAtts == {<<>>, <<"pic.png">>, <<"memo.txt", "pic.png">>}

\* Images: one user attaching pictures, or a document and a picture, to
\* turns with and without text, resetting and asking for the status of
\* the conversation.
NextImage ==
    \/ \E k \in Tasks, m \in {"blank", "plain", "fn"}, atts \in ImageAtts :
          /\ Len(atts) > 1 => nextId <= ImageIds
          /\ Begin(k, "prefix", 1, 20, m, atts, ImageAppends)
    \/ \E k \in Tasks : ChatStep(k)
    \/ \E k \in Tasks : ImageStep(k)
    \/ \E k \in Tasks : IngestStep(k, ImageLeftovers)
    \/ Reset(1, 20)
    \/ History(1, 20)

SpecImage == Init /\ [][NextImage]_vars

\* The documents the users of the knowledge base attach.
RagFiles ==
    {"empty.txt", "blank.txt", "memo.txt", "doc.pdf", "huge.pdf", "tool.exe"}

\* The knowledge base: two users ingesting, listing, searching and deleting
\* documents while the store goes down and comes back.
NextRag ==
    \/ \E k \in Tasks, u \in Users, c \in TextChannels,
          atts \in {<<>>} \cup {<<f>> : f \in RagFiles}
                   \cup {<<"memo.txt", "huge.pdf">>} :
          nextId <= RagIds /\ Begin(k, "prefix", u, c, "plain", atts, RagAppends)
    \/ \E k \in Tasks : ChatStep(k)
    \/ \E k \in Tasks : IngestStep(k, RagLeftovers)
    \/ \E u \in Users, c \in TextChannels : DocsList(u, c)
    \/ \E u \in Users, c \in TextChannels : DocsClear(u, c)
    \/ \E u \in Users, c \in TextChannels : DocsDelete(u, c, "memo.txt")
    \/ \E u \in Users, c \in TextChannels : DocsSearch(u, c)
    \/ StoreDown
    \/ StoreUp

SpecRag == Init /\ [][NextRag]_vars

\* The documents of the ingestion on its own.
IngestFiles == {"tome.txt", "book.txt", "memo.txt", "blank.txt", "doc.pdf",
                "bad.pdf", "tool.exe", "long.pdf", "void.pdf"}

\* The ingestion on its own: one user's turns with no text, with a document
\* or with none, among them one of more chunks than a storage batch holds, while
\* the store goes down and comes back and the deletion of the temporary
\* copy can fail.
NextIngest ==
    \/ \E k \in Tasks, atts \in {<<>>} \cup {<<f>> : f \in IngestFiles} :
          nextId <= IngestIds
          /\ Begin(k, "prefix", 1, 20, "blank", atts, IngestAppends)
    \/ \E k \in Tasks : Attach(k)
    \/ \E k \in Tasks : IngestStep(k, IngestLeftovers)
    \/ \E k \in Tasks : Rag(k)
    \/ \E k \in Tasks : Compose(k)
    \/ \E k \in Tasks : Respond(k)
    \/ \E k \in Tasks : Except(k)
    \/ StoreDown
    \/ StoreUp

SpecIngest == Init /\ [][NextIngest]_vars

\* Two turns in flight at once: the tasks of two messages, of one user or
\* of two, that the event loop interleaves at their suspension points.
Turns == {1, 2}

InitPair ==
    /\ InitState /\ ~storeUp
    /\ tasks = [k \in Turns |-> IdleTask]
    /\ assembly = NoAssembly

NextPair ==
    \/ \E k \in Turns, u \in Users :
          Begin(k, "prefix", u, 20, "plain", <<>>, PairAppends)
    \/ \E k \in Turns : ChatStep(k)

SpecPair == InitPair /\ [][NextPair]_vars

\* The life of a thread: it is started, messages are sent in it and in the
\* channel, /reset is run in it, it is ended and it is deleted.
NextThread ==
    \/ \E k \in Tasks, kind \in {"prefix", "thread"}, c \in Channels :
          Begin(k, kind, 1, c, "plain", <<>>, ThreadAppends)
    \/ \E k \in Tasks : ChatStep(k)
    \/ \E c \in Channels : Reset(1, c)
    \/ \E c \in ThreadIds : ChatThread(c)
    \/ \E c \in ThreadIds : EndThread(c)
    \/ \E c \in ThreadIds : ThreadDelete(c)

SpecThread == InitNoStore /\ [][NextThread]_vars

\* Activated channels: two users activate and deactivate the channel and
\* the thread and send plain messages there.
NextActive ==
    \/ \E u \in Users, c \in Channels : Activate(u, c)
    \/ \E u \in Users, c \in Channels : Deactivate(u, c)
    \/ \E k \in Tasks, u \in Users, c \in Channels :
          ActivatedMessage(k, u, c, "plain", ActiveAppends)
    \/ \E k \in Tasks : ChatStep(k)

SpecActive == InitNoStore /\ [][NextActive]_vars

\* The collection of a store that may be fresh: the program starts against
\* a store with no collection or with the collection of an earlier run,
\* the initialisation runs (again and again, as on every start), documents
\* are stored in between, and the store goes down and comes back.
InitColl ==
    /\ InitCore
    /\ collection \in {AbsentCollection, ReadyCollection}
    /\ tasks = [k \in Tasks |-> IdleTask]
    /\ assembly = NoAssembly

NextColl ==
    \/ InitializeCollection
    \/ \E k \in Tasks, atts \in {<<>>, <<"memo.txt">>} :
          nextId <= CollIds
          /\ Begin(k, "prefix", 1, 20, "blank", atts, CollAppends)
    \/ \E k \in Tasks : Attach(k)
    \/ \E k \in Tasks : IngestStep(k, CollLeftovers)
    \/ \E k \in Tasks : Rag(k)
    \/ \E k \in Tasks : Compose(k)
    \/ \E k \in Tasks : Respond(k)
    \/ \E k \in Tasks : Except(k)
    \/ StoreDown
    \/ StoreUp

SpecColl == InitColl /\ [][NextColl]_vars

(***************************************************************************)
(* The tenant resolution on its own: two calls of _get_tenant_id on every  *)
(* choice of user ids and of thread ids, given or not.                     *)
(***************************************************************************)
TenantUserArgs == {1, 2, 3}
TenantThreadArgs == {None, 0, 11, 12}

ResolveTenants(u1, t1, u2, t2) ==
    /\ ragCalls' = <<Call("_get_tenant_id", u1, t1, FALSE,
                          Return(get_tenant_id(u1, t1))),
                     Call("_get_tenant_id", u2, t2, FALSE,
                          Return(get_tenant_id(u2, t2)))>>
    /\ UNCHANGED <<assembly, sideVars>>
    /\ UNCHANGED <<ctxVars, active_threads, now, tasks, storeVars>>

NextTenant ==
    \E u1, u2 \in TenantUserArgs, t1, t2 \in TenantThreadArgs :
       ResolveTenants(u1, t1, u2, t2)

SpecTenant == Init /\ [][NextTenant]_vars

(***************************************************************************)
(* The context assembly on its own: every result list of up to CtxResults  *)
(* results and a choice of budgets.                                        *)
(***************************************************************************)
\* What a result can be: its file, its page and the length of its content.
ResultKinds ==
    {<<f, pg, len>> : f \in {"note.txt", "doc.pdf"}, pg \in {None, 1},
                      len \in {300, 950}}
Budgets == {100, 1000, 1300, 3000}

\* The result list of a choice of kinds, nearest first; a result's id is
\* its rank.
ResultsOf(kinds) ==
    [i \in 1..Len(kinds) |->
        [content |-> [page |-> kinds[i][2], part |-> i, len |-> kinds[i][3]],
         filename |-> kinds[i][1], page_number |-> kinds[i][2],
         chunk_index |-> i - 1, timestamp |-> StartTime, id |-> i]]

InitCtx ==
    /\ InitBase
    /\ \E n \in 0..CtxResults, max \in Budgets :
       \E kinds \in [1..n -> ResultKinds] :
          assembly = [NoAssembly EXCEPT !.results = ResultsOf(kinds),
                                       !.max_context_length = max]

\* get_context_for_query on the results query_documents returned.
Assemble ==
    /\ ~assembly.called
    /\ assembly' =
          [assembly EXCEPT !.called = TRUE,
               !.ret = get_context_for_query(Return(assembly.results),
                           assembly.max_context_length,
                           check_connection(client, storeUp))]
    /\ UNCHANGED <<ctxVars, active_threads, now, tasks, ragVars, sideVars>>

NextCtx == Assemble

SpecCtx == InitCtx /\ [][NextCtx]_vars

(***************************************************************************)
(* The claims.                                                             *)
(***************************************************************************)
\* A step of task k's chat turn, and whether that turn's message was sent
\* inside an active thread.
StepOf(k) == tasks'[k] # tasks[k]
TurnOf(k) == IF tasks[k].pc \in {"idle", "done"} THEN tasks'[k] ELSE tasks[k]

userMaps == <<conversations, convKeys, fileContexts, imageContexts,
              imageDescriptions, lastInteraction>>

\* C2: a chat turn handled inside an active thread leaves every user-keyed
\* map unchanged (it reads and writes only the thread's bundle).
C2_ThreadTurnLeavesUserMaps ==
    [][\A k \in Tasks :
          StepOf(k) /\ TurnOf(k).inThread => UNCHANGED userMaps]_vars

\* C3: in every reachable state the history of every tenant holds at most
\* maxHistory entries.
C3_HistoryAtMostMax ==
    /\ \A u \in DOMAIN conversations : Len(conversations[u]) <= maxHistory
    /\ \A c \in DOMAIN threadConversations :
          Len(threadConversations[c]) <= maxHistory

\* C4: once more than maxHistory entries have been appended to a history
\* (20 entries by 10 turns, say) and no turn is in flight, the history is
\* exactly the last maxHistory entries appended, in their order.
C4_HistoryIsLastMax ==
    (\A k \in Tasks : tasks[k].pc \in {"idle", "done"}) =>
        \A u \in DOMAIN conversations :
            Len(appendLog[u]) > maxHistory =>
                conversations[u] = LastN(appendLog[u], maxHistory)

\* Whether key id of a bundle has a last interaction older than the expiry
\* window at time t.
Expired(b, id, t) == id \in DOMAIN b.time /\ t - b.time[id] > historyExpiry
\* Whether key id has no entry in any map of a bundle.
Absent(b, id) ==
    /\ id \notin DOMAIN b.conv
    /\ id \notin DOMAIN b.file
    /\ id \notin DOMAIN b.image
    /\ id \notin DOMAIN b.desc
    /\ id \notin DOMAIN b.time

\* C5: after an eviction sweep has run, every user and every thread whose
\* last interaction was older than the expiry window has no entry left in
\* any of its context maps.
C5_SweepEvictsExpired ==
    [][(\E k \in Tasks : tasks[k].pc = "send" /\ StepOf(k)) =>
          /\ \A u \in Users :
                Expired(UserBundle, u, now) => Absent(UserBundle, u)'
          /\ \A c \in ThreadIds :
                Expired(ThreadBundle, c, now) => Absent(ThreadBundle, c)']_vars

\* The tenant a RAG-facing call was made for.
TenantOf(call) == get_tenant_id(call.user_id, call.thread_id)

\* C1: whatever was ingested and deleted before, query_documents,
\* get_context_for_query and list_stored_files made for a tenant return only
\* chunks, and filenames of chunks, that were stored under that tenant.
C1_TenantIsolation ==
    \A i \in 1..Len(ragCalls) :
       LET call == ragCalls[i]
           value == call.ret.value
       IN  ~call.ret.raised =>
              /\ call.op = "query_documents" =>
                    \A j \in 1..Len(value) :
                       storedUnder[value[j].id] = TenantOf(call)
              /\ call.op = "get_context_for_query" =>
                    \A j \in 1..Len(value.parts) :
                       storedUnder[value.parts[j].id] = TenantOf(call)
              /\ call.op = "list_stored_files" =>
                    \A info \in value : \A id \in info.ids :
                       storedUnder[id] = TenantOf(call)

\* A search of user 2 finds chunks while the store holds chunks of user 1.
C1_Witness ==
    /\ \E p \in points : p.tenant_id = get_tenant_id(1, None)
    /\ \E i \in 1..Len(ragCalls) :
          /\ ragCalls[i].op = "query_documents"
          /\ ragCalls[i].user_id = 2
          /\ Len(ragCalls[i].ret.value) > 0

\* The results with the first of every (filename, page) pair only.
RECURSIVE Dedup(_, _)
Dedup(results, seen) ==
    IF results = <<>> THEN <<>>
    ELSE IF PageKey(Head(results)) \in seen THEN Dedup(Tail(results), seen)
    ELSE <<Head(results)>>
         \o Dedup(Tail(results), seen \cup {PageKey(Head(results))})
IsPrefix(s, t) == Len(s) <= Len(t) /\ s = SubSeq(t, 1, Len(s))

\* C6: for every result list and every max_context_length, the text that
\* get_context_for_query returns is at most max_context_length long, and the
\* chunks in it are a prefix of the results deduplicated by (filename, page).
C6_ContextWithinBudget ==
    assembly.called =>
        /\ assembly.ret.value.len <= assembly.max_context_length
        /\ IsPrefix(assembly.ret.value.parts, Dedup(assembly.results, {}))

\* C7: no two chunks of an assembled context share their (filename, page)
\* pair, and an included chunk is the first result of its pair.
C7_OneChunkPerPage ==
    assembly.called =>
        LET parts == assembly.ret.value.parts
        IN  /\ \A i, j \in 1..Len(parts) :
                  i # j => PageKey(parts[i]) # PageKey(parts[j])
            /\ \A i \in 1..Len(parts) : \A r \in 1..(parts[i].id - 1) :
                  PageKey(assembly.results[r]) # PageKey(parts[i])

\* A context of two chunks made of three results, two of them of one page.
C7_Witness ==
    /\ assembly.called
    /\ Len(assembly.results) = 3
    /\ PageKey(assembly.results[1]) = PageKey(assembly.results[2])
    /\ Len(assembly.ret.value.parts) = 2

\* C8: a RAG-facing call made while the store is unavailable (no client, the
\* probe failing, or a store call raising) does not raise and returns its
\* defined result: an error record, an empty list, the empty string, false.
C8_UnavailableNeverRaises ==
    \A i \in 1..Len(ragCalls) :
       LET call == ragCalls[i]
           value == call.ret.value
       IN  call.down =>
              /\ ~call.ret.raised
              /\ call.op = "process_and_store_file" =>
                    value.kind \in {"unavailable", "exception"}
              /\ call.op = "query_documents" => value = <<>>
              /\ call.op = "list_stored_files" => value = {}
              /\ call.op = "get_context_for_query" => value = NoContext
              /\ call.op \in {"delete_tenant_data", "delete_file"} =>
                    value = FALSE

\* The store of a connected client fails a delete_tenant_data that had
\* points to delete.
C8_Witness ==
    /\ client = "connected"
    /\ \E i \in 1..Len(ragCalls) :
          /\ ragCalls[i].op = "delete_tenant_data"
          /\ ragCalls[i].down
          /\ MatchTenant(points, TenantOf(ragCalls[i])) # {}

\* C9: an attachment above 10 MiB ends the turn with the size error,
\* whether the store is available or not, before anything is done with it:
\* no probe or other store call, no temporary file, no embedding.
C9_OversizedRejectedFirst ==
    \A k \in Tasks :
       LET job == tasks[k].job
       IN  (job.file # "" /\ FileSize(job.file) > 10 * MiB) =>
              /\ tasks[k].pc = "done"
              /\ tasks[k].out[Len(tasks[k].out)] = "too_large"
              /\ job.ops = {}
              /\ job.result.kind = "none"
              /\ <<k, job.file>> \notin tempFiles

\* A turn with an oversized attachment ended while the store was down.
C9_Witness ==
    \E k \in Tasks :
       /\ tasks[k].pc = "done"
       /\ tasks[k].job.file = "huge.pdf"
       /\ client = "connected" /\ ~storeUp

\* Whether a file is a .txt file of no characters or of whitespace only.
BlankTxt(f) == IsTxtName(f) /\ TxtContent(f).stripped = 0

\* C10: the ingestion of a zero-byte or whitespace-only .txt file that the
\* store's probe let in ends with an empty-content error, and nothing of
\* such a file is ever stored; a job of zero chunks embeds and upserts
\* nothing, and a job that embeds or stores has chunks.
C10_EmptyContentRejected ==
    /\ \A p \in points : ~BlankTxt(p.filename)
    /\ \A k \in Tasks :
          LET job == tasks[k].job
          IN  /\ (job.file # "" /\ BlankTxt(job.file) /\ job.probe
                    /\ job.result.kind # "none") =>
                    /\ job.result.kind \in {"no_text", "no_chunks"}
                    /\ job.ops \cap {"embed", "upsert"} = {}
              /\ job.result.kind \in {"no_text", "no_chunks"} =>
                    job.ops \cap {"embed", "upsert"} = {}
              /\ tasks[k].pc \in {"embed", "store"} => job.chunks # <<>>

\* The ingestion of a whitespace-only file ended with the error of no chunks.
C10_Witness ==
    \E k \in Tasks :
       /\ tasks[k].pc = "done"
       /\ tasks[k].job.file = "blank.txt"
       /\ tasks[k].job.result.kind = "no_chunks"

\* Whether the latest step was the reset command issued by user u.
ResetBy(u) ==
    /\ ragCalls # <<>>
    /\ ragCalls[Len(ragCalls)].op = "reset"
    /\ ragCalls[Len(ragCalls)].user_id = u

\* C11: a reset issued by a user who has no entry in any context map leaves
\* the user-keyed maps as they were (it is a no-op), the first time and when
\* it is repeated.
C11_ResetOfAbsentIsNoOp ==
    [][\A u \in Users :
          (ResetBy(u)' /\ Absent(UserBundle, u)) => UNCHANGED userMaps]_vars

\* C12: when list_stored_files answers for a tenant whose latest ingestion
\* succeeded and whose points of that file are still stored, the listing has
\* an entry for the file with at least one chunk, as many chunks as the
\* ingestion reported in chunks_stored and as many pages as it reported in
\* pages_processed.
C12_ListingMatchesIngest ==
    \A i \in 1..Len(ragCalls) : \A k \in Tasks :
       LET call == ragCalls[i]
           job == tasks[k].job
       IN  (/\ call.op = "list_stored_files"
            /\ ~call.down
            /\ job.result.kind = "success"
            /\ job.result.tenant_id = TenantOf(call)
            /\ MatchTenantFile(points, TenantOf(call), job.file) # {}) =>
              \E info \in call.ret.value :
                 /\ info.filename = job.file
                 /\ info.chunks >= 1
                 /\ info.chunks = job.result.chunks_stored
                 /\ info.pages = job.result.pages_processed

\* Whether process_and_store_file has returned to the turn of task k.
Returned(k) ==
    tasks[k].job.result.kind # "none" /\ tasks[k].pc # "finally"

\* What a job that made the temporary copy has done with it once it has
\* returned.
TempCleanedUp(k) ==
    LET job == tasks[k].job
        left == <<k, job.file>> \in tempFiles
    IN  Returned(k) =>
           IF "save" \in job.ops
           THEN /\ job.unlinks >= 1
                /\ job.unlink = "first" => job.unlinks = 1 /\ ~left
                /\ job.unlink = "second" => job.unlinks = 2 /\ ~left
                /\ job.unlink = "never" => job.unlinks = 2 /\ left
           ELSE job.unlinks = 0

\* C13: every job of process_and_store_file that made the temporary copy,
\* however it ends (success, unsupported type, empty content, extraction,
\* embedding or storage error), attempts to delete it; a first attempt that
\* fails is followed by exactly one more, and whether the deletion works or
\* not the job returns the result it had before the clean-up.
C13_TempFileCleanup ==
    /\ [](\A k \in Tasks : TempCleanedUp(k))
    /\ [][\A k \in Tasks :
             (tasks[k].pc = "finally" /\ StepOf(k)) =>
                /\ tasks'[k].job.result = tasks[k].job.result
                /\ ragCalls' = <<Call("process_and_store_file",
                                      tasks[k].user, ThreadArg(tasks[k]),
                                      ~tasks[k].job.probe,
                                      Return(tasks[k].job.result))>>]_vars

\* A successful ingestion returned although both deletions failed.
C13_Witness ==
    \E k \in Tasks :
       /\ Returned(k)
       /\ tasks[k].job.unlink = "never"
       /\ tasks[k].job.result.kind = "success"
       /\ <<k, tasks[k].job.file>> \in tempFiles

\* C14: when a job reaches its clean-up, exactly the points of the storage
\* batches that were upserted are in the store: after a failed upsert the
\* result is the one error, the earlier batches stay and no later batch was
\* tried; a job that failed before storing has stored nothing, and one that
\* failed before embedding has embedded nothing.
C14_NoRollback ==
    \A k \in Tasks :
       LET job == tasks[k].job
       IN  tasks[k].pc = "finally" =>
              /\ \A i \in 1..Len(job.pts) :
                    job.pts[i] \in points <=> i <= job.nStored
              /\ job.result.kind = "success" <=>
                    (job.pts # <<>> /\ job.nStored = Len(job.pts))
              /\ (job.result.kind = "exception" /\ "upsert" \in job.ops) =>
                    job.nStored < Len(job.pts)
              /\ "upsert" \notin job.ops => job.nStored = 0
              /\ job.result.kind \in {"unsupported", "no_text", "no_chunks"}
                    => job.ops \cap {"embed", "upsert"} = {}

\* The second storage batch of a job failed after the first had been stored.
C14_Witness ==
    \E k \in Tasks :
       /\ tasks[k].pc = "finally"
       /\ tasks[k].job.result.kind = "exception"
       /\ tasks[k].job.nStored = 50
       /\ Len(tasks[k].job.pts) = 51
       /\ \A i \in 1..50 : tasks[k].job.pts[i] \in points

\* C15: _get_tenant_id gives "thread_<threadId>" for every thread id that is
\* supplied, whatever its value, and "user_<userId>" when none is; two calls
\* with the same arguments give the same id, and two users without a thread
\* get different ids.
C15_TenantOfArguments ==
    \A i, j \in 1..Len(ragCalls) :
       LET a == ragCalls[i]
           b == ragCalls[j]
       IN  (a.op = "_get_tenant_id" /\ b.op = "_get_tenant_id") =>
              /\ a.thread_id # None =>
                    a.ret.value = <<"thread", a.thread_id>>
              /\ a.thread_id = None => a.ret.value = <<"user", a.user_id>>
              /\ (a.user_id = b.user_id /\ a.thread_id = b.thread_id) =>
                    a.ret.value = b.ret.value
              /\ (a.thread_id = None /\ b.thread_id = None
                     /\ a.user_id # b.user_id) =>
                    a.ret.value # b.ret.value

\* C16: the knowledge-base context of a chat turn whose message was sent
\* inside an active thread is asked for the thread's tenant, the one the
\* docs commands issued in that thread resolve, and that of a turn outside
\* an active thread for the user's tenant.
C16_TurnResolvesPlaceTenant ==
    \A k \in Tasks : \A i \in 1..Len(ragCalls) :
       (tasks[k].pc = "compose" /\ ragCalls[i].op = "get_context_for_query")
          => TenantOf(ragCalls[i]) =
                IF tasks[k].inThread THEN <<"thread", tasks[k].channel>>
                ELSE <<"user", tasks[k].user>>

\* C17: the history command reports a conversation only for a tenant that is
\* ACTIVE, one with messages in its history: a tenant that never chatted,
\* one that was reset and has not chatted since, and one that was evicted
\* are ABSENT and reported as having no conversation.
C17_StatusOnlyOfActive ==
    \A i \in 1..Len(ragCalls) :
       LET call == ragCalls[i]
       IN  (call.op = "history" /\ call.ret.value.found) =>
              /\ call.user_id \in DOMAIN appendLog
              /\ appendLog[call.user_id] # <<>>

threadMaps == <<threadConversations, threadConvKeys, threadFileContexts,
                threadImageContexts, threadImageDescriptions,
                threadLastInteraction>>

\* Whether key id of a bundle has an empty history, no file context and no
\* image context.
Cleared(b, id) ==
    /\ id \in DOMAIN b.conv /\ b.conv[id] = <<>>
    /\ id \in DOMAIN b.file /\ b.file[id] = ""
    /\ id \in DOMAIN b.image /\ b.image[id] = ""
    /\ id \in DOMAIN b.desc /\ b.desc[id] = ""

\* Whether map m2 is map m1 but for key id.
SameButFor(m1, m2, id) ==
    /\ DOMAIN m2 \ {id} = DOMAIN m1 \ {id}
    /\ \A x \in DOMAIN m1 \ {id} : m2[x] = m1[x]

\* Whether bundle b2 is bundle b1 but for the context of key id.
OthersKept(b1, b2, id) ==
    /\ SameButFor(b1.conv, b2.conv, id)
    /\ SameButFor(b1.file, b2.file, id)
    /\ SameButFor(b1.image, b2.image, id)
    /\ SameButFor(b1.desc, b2.desc, id)
    /\ b2.time = b1.time

\* C18: a reset issued outside an active thread clears the history, the
\* file context and the image context of the user who issued it, leaves
\* every thread-keyed map and every other user's entries as they were, and
\* sends the user-only confirmation; issued inside an active thread it
\* clears the user's and that thread's, leaves the other users and threads
\* alone, and sends the user-and-thread confirmation.
C18_ResetFrame ==
    [][\A u \in Users :
          ResetBy(u)' =>
             /\ Cleared(UserBundle, u)'
             /\ OthersKept(UserBundle, UserBundle', u)
             /\ IF ragCalls'[Len(ragCalls')].thread_id = None
                THEN /\ UNCHANGED threadMaps
                     /\ ragCalls'[Len(ragCalls')].ret.value.scope
                           = "user_only"
                ELSE /\ Cleared(ThreadBundle',
                                ragCalls'[Len(ragCalls')].thread_id)
                     /\ OthersKept(ThreadBundle, ThreadBundle',
                                   ragCalls'[Len(ragCalls')].thread_id)
                     /\ ragCalls'[Len(ragCalls')].ret.value.scope
                           = "user_and_thread"]_vars

\* User 1 has reset inside active thread 11 while user 2 has a history.
C18_Witness ==
    /\ ResetBy(1)
    /\ ragCalls[Len(ragCalls)].thread_id = 11
    /\ 11 \in active_threads
    /\ Cleared(UserBundle, 1) /\ Cleared(ThreadBundle, 11)
    /\ 2 \in DOMAIN conversations /\ Len(conversations[2]) = 2

\* The length of the chunk texts of a list of results, one after another.
RECURSIVE JoinedLen(_)
JoinedLen(rs) ==
    IF rs = <<>> THEN 0
    ELSE (1 + FilenameLen(Head(rs).filename)
            + (IF Head(rs).page_number \in {None, 0} THEN 0
               ELSE 6 + Digits(Head(rs).page_number))
            + 1 + 1 + Head(rs).content.len + 2)
         + JoinedLen(Tail(rs))

\* C19: get_context_for_query returns the empty string exactly when the
\* store is unavailable, the query gave no results, or the first result's
\* chunk text alone is longer than max_context_length; otherwise it returns
\* the header, the included chunks in the order of the results, and the
\* trailing instruction.
C19_EmptyOrWrapped ==
    assembly.called =>
        LET ret == assembly.ret.value
            results == assembly.results
            none == \/ ~(client # "none" /\ storeUp)
                    \/ results = <<>>
                    \/ JoinedLen(<<results[1]>>) > assembly.max_context_length
        IN  /\ ~assembly.ret.raised
            /\ ret = NoContext <=> none
            /\ ~none =>
                  /\ ret.parts # <<>>
                  /\ ret.parts[1] = results[1]
                  /\ \A i \in 1..Len(ret.parts) :
                        ret.parts[i] = results[ret.parts[i].id]
                  /\ \A i, j \in 1..Len(ret.parts) :
                        i < j => ret.parts[i].id < ret.parts[j].id
                  /\ ret.len = 27 + JoinedLen(ret.parts) + 165

\* Results came back from an available store and none of them fitted.
C19_Witness ==
    /\ assembly.called
    /\ client # "none" /\ storeUp
    /\ assembly.results # <<>>
    /\ assembly.ret.value = NoContext

\* C20: a step that ran delete_file for a tenant removes from the store only
\* points of that tenant with the filename given ("memo.txt" is the one the
\* users delete), and all of them when it returns true; a step that ran
\* delete_tenant_data removes only points of that tenant, and all of them
\* when it returns true; no step adds or changes a point while deleting.
C20_DeleteFrame ==
    [][\A i \in 1..Len(ragCalls') :
          LET call == ragCalls'[i]
              tenant == TenantOf(call)
              gone == points \ points'
              mine == {p \in points : storedUnder[p.id] = tenant}
          IN  /\ call.op = "delete_file" =>
                    /\ points' \subseteq points
                    /\ gone \subseteq
                          {p \in mine : p.filename = "memo.txt"}
                    /\ call.ret.value =>
                          gone = {p \in mine : p.filename = "memo.txt"}
                    /\ ~call.ret.value => gone = {}
              /\ call.op = "delete_tenant_data" =>
                    /\ points' \subseteq points
                    /\ gone \subseteq mine
                    /\ call.ret.value => gone = mine
                    /\ ~call.ret.value => gone = {}]_vars

\* A tenant's memo.txt (point 1) has been deleted by delete_file while the
\* same tenant's doc.pdf stays stored.
C20_Witness ==
    /\ \E i \in 1..Len(ragCalls) :
          /\ ragCalls[i].op = "delete_file"
          /\ ragCalls[i].ret.value
          /\ 1 \in DOMAIN storedUnder
          /\ storedUnder[1] = TenantOf(ragCalls[i])
          /\ \E p \in points : /\ p.filename = "doc.pdf"
                                /\ p.tenant_id = TenantOf(ragCalls[i])
    /\ \A p \in points : p.id # 1

(***************************************************************************)
(* Turns in flight at once.                                                *)
(***************************************************************************)
\* The number of entries of user u's history.
HistLen(u) == IF u \in DOMAIN conversations THEN Len(conversations[u]) ELSE 0

C22_SweepOfOthersNeverFailsTurn ==
    [][\A k \in Tasks :
          /\ StepOf(k) /\ tasks[k].pc = "send"
          /\ ~Expired(UserBundle, tasks[k].contextId, now)
          => /\ tasks'[k].pc = "done"
             /\ tasks'[k].out = <<"response">>]_vars

(***************************************************************************)
(* The order of a turn.                                                    *)
(***************************************************************************)
\* The last entry but j of user u's history.
FromLast(u, j) == conversations[u][Len(conversations[u]) - j]

\* C23: a completed turn appends its user entry, calls the model with the
\* history that ends with that entry, appends the assistant entry, sends
\* the response and then sweeps.  The step of the appends and of the model
\* call sends nothing and evicts nothing; the response is sent by the next
\* step of the turn and by no other, that step appends nothing, and when
\* it ends the turn no history older than the expiry window is left.
C23_TurnOrder ==
    [][\A k \in Tasks :
          StepOf(k) =>
          LET t == tasks[k]
              u == t.contextId
          IN  /\ tasks'[k].pc = "send"
                 => /\ t.pc = "compose"
                    /\ HistLen(u)' >= 2
                    /\ FromLast(u, 1)'.role = "user"
                    /\ FromLast(u, 0)'.role = "assistant"
                    /\ FromLast(u, 0)'.n = FromLast(u, 1)'.n + 1
                    /\ tasks'[k].llm # <<>>
                    /\ tasks'[k].llm
                          = SubSeq(conversations'[u], 1, HistLen(u)' - 1)
                    /\ tasks'[k].out = t.out
                    /\ "response" \notin Range(t.out)
                    /\ DOMAIN conversations \subseteq DOMAIN conversations'
                    /\ lastInteraction' = lastInteraction
              /\ t.pc = "send"
                 => /\ tasks'[k].out = Append(t.out, "response")
                    /\ \A v \in Users : HistLen(v)' \in {HistLen(v), 0}
                    /\ tasks'[k].pc = "done"
                       => \A v \in DOMAIN conversations' :
                             /\ v \in DOMAIN lastInteraction'
                             /\ ~(now - lastInteraction'[v] > historyExpiry)
              /\ "response" \in Range(tasks'[k].out) \ Range(t.out)
                 => t.pc = "send"]_vars

\* A turn completed after the clock ran past the expiry window: its sweep
\* left the history of the turn's own user, in order, and no other.
C23_Witness ==
    /\ tasks[1].pc = "done" /\ tasks[1].out = <<"response">>
    /\ now > StartTime + historyExpiry
    /\ \E u \in Users :
          /\ HistLen(u) = 2
          /\ conversations[u][1].role = "user"
          /\ conversations[u][2].role = "assistant"
          /\ now - lastInteraction[u] <= historyExpiry
          /\ \A v \in Users \ {u} : Absent(UserBundle, v)

\* C24: a non-blank message that the ancillary-API intent match answers
\* ends the turn there.  The turn begins by stamping the last interaction
\* and nothing else, and its next step sends the function result and ends
\* it: no attachment has been processed, no RAG call made, the model not
\* called, and the history, the file context, the image and its
\* description, the stored points and the temporary files are unchanged.
C24_FunctionMatchShortCircuits ==
    [][\A k \in Tasks :
          /\ StepOf(k) /\ tasks'[k].msg = "fn"
             => /\ tasks'[k].pc = "detect"
                /\ tasks'[k].out = <<>>
                /\ UNCHANGED <<conversations, fileContexts, imageContexts,
                               imageDescriptions, appendLog>>
          /\ StepOf(k) /\ tasks[k].msg = "fn"
             => /\ tasks[k].pc = "detect"
                /\ tasks'[k].pc = "done"
                /\ tasks'[k].out = <<"function_result">>
                /\ tasks'[k].job = IdleJob
                /\ ~tasks'[k].rag /\ tasks'[k].llm = <<>>
                /\ ragCalls' = <<>>
                /\ UNCHANGED <<ctxVars, points, storedUnder, tempFiles>>]_vars

\* A turn ended by a function result, sent to a user whose history, image
\* description and knowledge base an earlier turn had filled.
C24_Witness ==
    /\ tasks[1].pc = "done" /\ tasks[1].out = <<"function_result">>
    /\ HistLen(1) = 2
    /\ 1 \in DOMAIN imageDescriptions /\ imageDescriptions[1] = "pic.png"
    /\ lastInteraction[1] = now
    /\ points # {}

(***************************************************************************)
(* The system context.                                                     *)
(***************************************************************************)
\* The place of a part in the system context.  The behavioural preamble is
\* the sentence on the use of the context parts (one text when there is a
\* part, another when there is none) followed by the fixed text.
PlaceOf(part) ==
    CASE part = "rag" -> 1
      [] part = "legacy_file" -> 2
      [] part = "image_description" -> 3
      [] part \in {"use_above", "answer_normally"} -> 4
      [] part = "preamble" -> 5

\* Whether a system context has its parts in their places, each at most
\* once, and ends with the preamble.
InOrder(ctx) ==
    /\ ctx # <<>> /\ ctx[Len(ctx)] = "preamble"
    /\ Len(ctx) >= 2 /\ PlaceOf(ctx[Len(ctx) - 1]) = 4
    /\ \A i, j \in 1..Len(ctx) : i < j => PlaceOf(ctx[i]) < PlaceOf(ctx[j])

\* What key id holds in a map of texts, "" when it holds nothing.
TextOf(d, id) == IF id \in DOMAIN d THEN d[id] ELSE ""

\* C25: the system context of a turn is, in this order, the RAG context,
\* the legacy file context, the image description and the behavioural
\* preamble.  The RAG context is queried only for a message with text and
\* is there only when the query gave a text; the file context and the
\* image description are there exactly when the tenant has one; a part
\* that is absent leaves nothing, and no history ever holds a user entry
\* whose parts are in another order.
C25_SystemContextOrder ==
    /\ [](\A u \in DOMAIN conversations :
            \A i \in 1..Len(conversations[u]) :
               conversations[u][i].role = "user"
               => InOrder(conversations[u][i].ctx))
    /\ [][\A k \in Tasks :
             LET t == tasks[k]
                 u == t.contextId
             IN  /\ StepOf(k) /\ t.pc = "rag"
                    => IF t.msg = "blank"
                       THEN ragCalls' = <<>> /\ ~tasks'[k].rag
                       ELSE /\ ragCalls' # <<>>
                            /\ LET c == ragCalls'[Len(ragCalls')]
                               IN  /\ c.op = "get_context_for_query"
                                   /\ tasks'[k].rag
                                      = (~c.ret.raised
                                         /\ c.ret.value # NoContext)
                 /\ StepOf(k) /\ t.pc = "compose"
                    => LET e == IF tasks'[k].pc = "send"
                                THEN FromLast(u, 1)' ELSE FromLast(u, 0)'
                           has(p) == \E i \in 1..Len(e.ctx) : e.ctx[i] = p
                       IN  /\ e.role = "user"
                           /\ has("rag") <=> t.rag
                           /\ has("legacy_file")
                              <=> TextOf(fileContexts, u) # ""
                           /\ has("image_description")
                              <=> TextOf(imageDescriptions, u) # ""
                           /\ has("use_above") <=> Len(e.ctx) > 2
                           /\ has("answer_normally") <=> Len(e.ctx) = 2]_vars

\* A history whose user entry was composed from a RAG context and an image
\* description, and one composed from nothing but the preamble.
C25_Witness ==
    /\ HistLen(1) = 4
    /\ conversations[1][1].ctx = <<"answer_normally", "preamble">>
    /\ conversations[1][3].ctx
          = <<"rag", "image_description", "use_above", "preamble">>

(***************************************************************************)
(* Document attachments.                                                   *)
(***************************************************************************)
\* The places of a turn that is processing a document attachment.
IngestPcs == {"ingest", "extract", "embed", "store", "finally"}

\* C26: no step of the processing of a document attachment writes the
\* history, the legacy file context, the image or its description of any
\* tenant; and the step at which the ingestion returns an error ends the
\* turn with that error as the last thing shown, the history as it was
\* and the model never called.
C26_DocumentLeavesConversation ==
    [][\A k \in Tasks :
          StepOf(k) /\ tasks[k].pc \in IngestPcs
          => /\ UNCHANGED ctxVars
             /\ tasks'[k].llm = <<>>
             /\ tasks'[k].job.result.kind \notin {"none", "success"}
                /\ tasks'[k].pc # "finally"
                => /\ tasks'[k].pc = "done"
                   /\ tasks'[k].out
                         = Append(tasks[k].out, tasks'[k].job.result.kind)
                   /\ "response" \notin Range(tasks'[k].out)]_vars

\* A turn ended by a failed ingestion, shown to a user whose history holds
\* an earlier turn.
C26_Witness ==
    /\ tasks[1].pc = "done"
    /\ tasks[1].job.result.kind \in {"no_text", "no_chunks", "exception"}
    /\ tasks[1].out = <<"processing_document", tasks[1].job.result.kind>>
    /\ ragCalls # <<>>
    /\ ragCalls[1].op = "process_and_store_file"
    /\ HistLen(ragCalls[1].user_id) = 2

(***************************************************************************)
(* Embedding and storage batches.                                          *)
(***************************************************************************)
\* C27: the embeddings of a job are one per chunk, in the order of the
\* chunks.  Every embedding step of the job is one batch: it adds the
\* embeddings of the next chunks, at most 3 of them when the job has more
\* than 50 chunks and at most 5 otherwise, and as many as that unless
\* fewer chunks are left; the job is at one batch at a time and comes to
\* storing only with an embedding for every chunk.
C27_OneEmbeddingPerChunk ==
    /\ [](\A k \in Tasks :
            LET job == tasks[k].job
            IN  /\ Len(job.emb) <= Len(job.chunks)
                /\ \A i \in 1..Len(job.emb) :
                      job.emb[i] = [of |-> job.chunks[i].content]
                /\ tasks[k].pc = "store"
                   => /\ Len(job.emb) = Len(job.chunks)
                      /\ Len(job.pts) = Len(job.chunks)
                      /\ \A i \in 1..Len(job.pts) :
                            job.pts[i].vector = job.emb[i])
    /\ [][\A k \in Tasks :
             StepOf(k) /\ tasks[k].pc = "embed"
             /\ tasks'[k].job.result.kind # "exception"
             => LET n == Len(tasks[k].job.chunks)
                    had == Len(tasks[k].job.emb)
                    has == Len(tasks'[k].job.emb)
                    most == IF n > 50 THEN 3 ELSE 5
                IN  /\ has > had /\ has - had <= most
                    /\ has - had < most => has = n
                    /\ tasks'[k].job.chunks = tasks[k].job.chunks
                    /\ tasks'[k].pc = (IF has = n THEN "store" ELSE "embed")
       ]_vars

\* A job of more than 50 chunks after its first batch, of three.
C27_Witness ==
    /\ tasks[1].pc = "embed"
    /\ Len(tasks[1].job.chunks) = 51
    /\ Len(tasks[1].job.emb) = 3

\* The tenant a turn's documents are stored under.
TenantOfTurn(t) ==
    IF t.isThread THEN <<"thread", t.channel>> ELSE <<"user", t.user>>

\* C28: a successful ingest of n chunks upserts n points, one for every
\* chunk.  Every storage step is one upsert of the next points of the job,
\* at most 25 of them when n > 100 and at most 50 otherwise, and as many
\* as that unless fewer are left, so that the job makes ceil(n / batch)
\* calls; the points carry the resolved tenant, the file name, the page
\* number of their chunk and its position 0..n-1 in the document, and the
\* result's chunks_stored is n.
C28_EveryChunkStoredOnce ==
    /\ [](\A k \in Tasks :
            LET t == tasks[k]
                job == t.job
                n == Len(job.chunks)
                most == IF n > 100 THEN 25 ELSE 50
            IN  t.pc = "finally" /\ job.result.kind = "success"
                => /\ n > 0 /\ Len(job.pts) = n /\ job.nStored = n
                   /\ job.result.chunks_stored = n
                   /\ job.upserts * most >= n
                   /\ (job.upserts - 1) * most < n
                   /\ Cardinality({job.pts[i].id : i \in 1..n}) = n
                   /\ \A i \in 1..n :
                         /\ job.pts[i] \in points
                         /\ job.pts[i].chunk_index = i - 1
                         /\ job.pts[i].tenant_id = TenantOfTurn(t)
                         /\ job.pts[i].filename = job.file
                         /\ job.pts[i].page_number
                               = job.chunks[i].page_number
                         /\ job.pts[i].content = job.chunks[i].content)
    /\ [][\A k \in Tasks :
             StepOf(k) /\ tasks[k].pc = "store"
             /\ tasks'[k].job.result.kind # "exception"
             => LET job == tasks[k].job
                    n == Len(job.pts)
                    had == job.nStored
                    has == tasks'[k].job.nStored
                    most == IF n > 100 THEN 25 ELSE 50
                IN  /\ has > had /\ has - had <= most
                    /\ has - had < most => has = n
                    /\ tasks'[k].job.upserts = job.upserts + 1
                    /\ points' = points
                                  \cup {job.pts[i] : i \in (had + 1)..has}
                    /\ Cardinality(points') = Cardinality(points) + has - had
                    /\ tasks'[k].pc = (IF has = n THEN "finally" ELSE "store")
       ]_vars

\* A job of 101 chunks stored by five upserts.
C28_Witness ==
    /\ tasks[1].pc = "finally" /\ tasks[1].job.result.kind = "success"
    /\ Len(tasks[1].job.chunks) = 101
    /\ tasks[1].job.upserts = 5
    /\ Cardinality(points) = 101

(***************************************************************************)
(* The greedy context assembly.                                            *)
(***************************************************************************)
\* C29: the chunks of an assembled context are the first chunks of the
\* results deduplicated by page, in the order of the store and each at its
\* full length, up to the first one of them that would take the length
\* past max_context_length: the assembly stops there and includes no later
\* chunk, whether it would fit or not.
C29_GreedyStopsAtFirstOverflow ==
    assembly.called /\ client # "none" /\ storeUp =>
        LET parts == assembly.ret.value.parts
            dedup == Dedup(assembly.results, {})
            max == assembly.max_context_length
        IN  /\ IsPrefix(parts, dedup)
            /\ SumLens(parts) <= max
            /\ Len(parts) < Len(dedup)
               => SumLens(parts) + ChunkTextLen(dedup[Len(parts) + 1]) > max
            /\ parts # <<>>
               => assembly.ret.value.len
                     = HeaderLen + SumLens(parts) + TrailerLen

\* Three results of three pages: the first fits, the second does not, and
\* the third, which would fit after the first, is left out.
C29_Witness ==
    /\ assembly.called /\ client # "none" /\ storeUp
    /\ Len(Dedup(assembly.results, {})) = 3
    /\ Len(assembly.ret.value.parts) = 1
    /\ ChunkTextLen(assembly.results[1]) + ChunkTextLen(assembly.results[3])
          <= assembly.max_context_length

(***************************************************************************)
(* A store that is unreachable at construction, or at the time of a call.  *)
(***************************************************************************)
\* The RAG-facing operations.
RagOps == {"process_and_store_file", "query_documents", "list_stored_files",
           "get_context_for_query", "delete_tenant_data", "delete_file"}

\* Whether a call came back, without raising, with what its operation
\* gives when the RAG subsystem is unavailable.
GaveUnavailable(call) ==
    /\ call.down /\ ~call.ret.raised
    /\ call.op = "process_and_store_file"
       => call.ret.value = ErrorResult("unavailable")
    /\ call.op = "query_documents" => call.ret.value = <<>>
    /\ call.op = "list_stored_files" => call.ret.value = {}
    /\ call.op = "get_context_for_query" => call.ret.value = NoContext
    /\ call.op \in {"delete_tenant_data", "delete_file"}
       => call.ret.value = FALSE

\* C30: a handler constructed while the store was unreachable has no
\* client, and keeps none whatever the store does later: every RAG-facing
\* call then returns its unavailable result without raising, nothing is
\* asked of the store, nothing stored and no temporary file written.  A
\* handler constructed with the store reachable keeps its client and
\* probes the store at every call: a call that begins while the store is
\* down returns the unavailable result as well and leaves the points alone.
C30_UnreachableStoreFailsSoft ==
    /\ [](client = "none"
          => /\ points = {} /\ tempFiles = {}
             /\ \A k \in Tasks : tasks[k].job.ops = {}
             /\ \A i \in 1..Len(ragCalls) :
                   ragCalls[i].op \in RagOps => GaveUnavailable(ragCalls[i]))
    /\ [][/\ client' = client
           /\ ~storeUp
              => /\ \A k \in Tasks :
                       StepOf(k) /\ tasks[k].pc = "ingest"
                       => /\ tasks'[k].pc = "done"
                          /\ tasks'[k].job.result = ErrorResult("unavailable")
                          /\ tasks'[k].out
                                = Append(tasks[k].out, "unavailable")
                          /\ ragCalls' # <<>>
                          /\ GaveUnavailable(ragCalls'[1])
                 /\ \A i \in 1..Len(ragCalls') :
                       ragCalls'[i].op \in RagOps
                                           \ {"process_and_store_file"}
                       => GaveUnavailable(ragCalls'[i])
                 /\ points' = points]_vars

\* The store has come back after a construction that found it unreachable,
\* and an ingestion is still answered with the unavailable result.
C30_Witness ==
    /\ client = "none" /\ storeUp
    /\ ragCalls # <<>>
    /\ ragCalls[1].op = "process_and_store_file"
    /\ ragCalls[1].ret.value = ErrorResult("unavailable")
    /\ tasks[1].pc = "done"

\* A run of _initialize_collection is the step that records it.
InitRun ==
    /\ ragCalls' # <<>>
    /\ ragCalls'[1].op = "_initialize_collection"

\* C31: the collection initialisation is idempotent: it creates the
\* collection and the tenant index only when no collection exists, on an
\* existing collection it creates nothing (so a second run after a first
\* creates nothing), it never changes a stored point, and a failure of the
\* store inside it is swallowed.
C31_InitialisationIdempotent ==
    [][InitRun
       => /\ points' = points
          /\ ~ragCalls'[1].ret.raised
          /\ ragCalls'[1].ret.value # {} => ~collection.exists
          /\ collection.exists
             => collection' = collection /\ ragCalls'[1].ret.value = {}
          /\ collection' # collection
             => collection'.exists /\ ragCalls'[1].ret.value # {}
          /\ \A again \in 0..3 :
                collection'.exists
                => initialize_collection(client, collection', again)
                      = [coll |-> collection', created |-> {},
                         raised |-> FALSE]]_vars

\* The initialisation has run against a reachable store whose collection
\* holds points.
C31_Witness ==
    /\ ragCalls # <<>>
    /\ ragCalls[1].op = "_initialize_collection"
    /\ ~ragCalls[1].down
    /\ points # {}
    /\ collection.exists

\* The pages of a PDF whose extraction succeeds with text that is not blank.
GoodPages(f) ==
    {i \in 1..Len(PdfPages(f)) :
        ~PdfPages(f)[i].fails /\ PdfPages(f)[i].stripped > 0}

\* C32: a page whose extraction raises is skipped and nothing else is: the
\* chunks of a readable PDF are those of its non-blank pages that did not
\* fail, in page order, each under its own 1-based page number, on the
\* path of at most 50 pages and on the batched path above; the job fails
\* for lack of text only when no page yields any.
C32_FailingPageSkippedAlone ==
    [][\A k \in Tasks :
          /\ StepOf(k) /\ tasks[k].pc = "extract"
          /\ IsPdfName(tasks[k].job.file) /\ ~Unreadable(tasks[k].job.file)
          => LET f == tasks[k].job.file
                 chunks == tasks'[k].job.chunks
             IN  IF GoodPages(f) = {}
                 THEN /\ tasks'[k].pc = "finally"
                      /\ tasks'[k].job.result = ErrorResult("no_text")
                 ELSE /\ tasks'[k].pc = "embed"
                      /\ tasks'[k].job.nDocs = Cardinality(GoodPages(f))
                      /\ {chunks[i].page_number : i \in 1..Len(chunks)}
                            = GoodPages(f)
                      /\ \A i \in 1..Len(chunks) :
                            /\ chunks[i].content.page = chunks[i].page_number
                            /\ chunks[i].content.len
                                  = PdfPages(f)[chunks[i].page_number].stripped
                            /\ i > 1 => chunks[i - 1].page_number
                                           < chunks[i].page_number]_vars

\* A PDF of more than 50 pages with failing pages has been extracted: its
\* four pages with text are on their way to the store.
C32_Witness ==
    /\ tasks[1].job.file = "long.pdf"
    /\ tasks[1].pc = "embed"
    /\ tasks[1].job.nDocs = 4
    /\ \E i \in 1..Len(tasks[1].job.chunks) :
          tasks[1].job.chunks[i].page_number = 52

\* The history of user u; a user without a key has none.
HistOf(u) == IF u \in DOMAIN conversations THEN conversations[u] ELSE <<>>

\* C33: a turn whose language-model call raises leaves the tenant's history
\* as it was before the call (no user entry without its answer stays
\* behind), and the turn ends with the error message.
C33_FailedCallLeavesHistory ==
    [][\A k \in Tasks :
          /\ StepOf(k) /\ tasks[k].pc = "compose" /\ tasks'[k].pc = "except"
          /\ ~tasks[k].isThread
          => HistOf(tasks[k].contextId)' = HistOf(tasks[k].contextId)]_vars

\* C34: the sweep never raises, whatever maps the tenants it meets have
\* entries in, so no turn goes to its error message after its response has
\* been sent, and the sweep leaves no expired history of a user or of a
\* thread behind.
C34_SweepNeverRaises ==
    [][\A k \in Tasks :
          StepOf(k) /\ tasks[k].pc = "send"
          => /\ ~pruneOldConversations(UserBundle, ThreadBundle, now).raised
             /\ tasks'[k].pc # "except"
             /\ \A u \in DOMAIN conversations' :
                   ~Expired(UserBundle', u, now)
             /\ \A c \in DOMAIN threadConversations' :
                   ~Expired(ThreadBundle', c, now)]_vars

\* C35: the stored history of a user is a contiguous suffix of the entries
\* appended since the history was created or last reset and never holds
\* more than maxHistory + 1 entries; the history a turn calls the language
\* model with holds at most maxHistory entries, is such a suffix too, and
\* ends with the user entry of that turn.
C35_HistoryIsBoundedSuffix ==
    /\ [](\A u \in DOMAIN conversations :
             /\ Len(conversations[u]) <= maxHistory + 1
             /\ u \in DOMAIN appendLog
             /\ Len(conversations[u]) <= Len(appendLog[u])
             /\ conversations[u]
                   = LastN(appendLog[u], Len(conversations[u])))
    /\ [][\A k \in Tasks :
             StepOf(k) /\ tasks[k].pc = "compose" /\ ~tasks[k].isThread
             => LET sent == tasks'[k].llm
                    before == HistOf(tasks[k].contextId)
                IN  /\ sent # <<>> /\ Len(sent) <= maxHistory
                    /\ sent[Len(sent)].role = "user"
                    /\ sent[Len(sent)].task = k
                    /\ sent[Len(sent)] \notin
                          {before[i] : i \in 1..Len(before)}
                    /\ SubSeq(sent, 1, Len(sent) - 1)
                          = LastN(before, Len(sent) - 1)
                    /\ tasks'[k].pc = "send"
                       => HistOf(tasks[k].contextId)'
                             = Append(sent, [role |-> "assistant",
                                             n |-> sent[Len(sent)].n + 1,
                                             task |-> k, ctx |-> <<>>])]_vars

\* A turn has called the language model with a full history cut to
\* maxHistory entries, and the stored history holds one entry more.
C35_Witness ==
    /\ tasks[1].pc = "send"
    /\ Len(tasks[1].llm) = maxHistory
    /\ 1 \in DOMAIN conversations
    /\ Len(conversations[1]) = maxHistory + 1
    /\ Len(appendLog[1]) > maxHistory + 1

\* Map m holds for id after the step what it held before.
KeptAt(m1, m2, id) ==
    /\ id \in DOMAIN m2 <=> id \in DOMAIN m1
    /\ id \in DOMAIN m1 => m2[id] = m1[id]

\* Tenant id of bundle b interacted at most historyExpiry ago.
Fresh(b, id, t) == id \in DOMAIN b.time /\ t - b.time[id] <= historyExpiry

\* Bundle b2 holds for id what b1 held.
TenantKept(b1, b2, id) ==
    /\ KeptAt(b1.conv, b2.conv, id) /\ KeptAt(b1.file, b2.file, id)
    /\ KeptAt(b1.image, b2.image, id) /\ KeptAt(b1.desc, b2.desc, id)
    /\ KeptAt(b1.time, b2.time, id)

\* C36: the sweep that ends a turn, whoever's turn it is, leaves every
\* tenant alone whose last interaction is at most historyExpiry old: the
\* history, file context, image description and timestamp of such a user
\* or thread are after the sweep what they were before it.
C36_SweepKeepsFreshTenants ==
    [][\A k \in Tasks :
          StepOf(k) /\ tasks[k].pc = "send"
          => /\ \A u \in Users :
                   Fresh(UserBundle, u, now)
                   => TenantKept(UserBundle, UserBundle', u)
             /\ \A c \in ThreadIds :
                   Fresh(ThreadBundle, c, now)
                   => TenantKept(ThreadBundle, ThreadBundle', c)]_vars

\* A turn of user 1 has ended with a sweep that took the history of user 2,
\* whose last interaction was too old, while user 1's history, exactly
\* historyExpiry old, is still there.
C36_Witness ==
    /\ tasks[1].pc \in {"done", "except"}
    /\ tasks[1].out # <<>> /\ tasks[1].out[1] = "response"
    /\ 1 \in DOMAIN conversations /\ conversations[1] # <<>>
    /\ 1 \in DOMAIN lastInteraction
    /\ now - lastInteraction[1] = historyExpiry
    /\ 2 \notin DOMAIN conversations
    /\ 2 \in DOMAIN lastInteraction
    /\ now - lastInteraction[2] > historyExpiry

\* The step is the handling of the deletion of thread c.
ThreadDeleted(c) ==
    /\ ragCalls' # <<>>
    /\ ragCalls'[1].op = "on_thread_delete"
    /\ ragCalls'[1].thread_id = c

\* C37: when the deletion of a thread has been handled, the thread is not
\* an active thread and none of the five thread maps has an entry for it,
\* whatever happened in the thread before.
C37_DeletedThreadLeavesNothing ==
    [][\A c \in ThreadIds :
          ThreadDeleted(c)
          => c \notin active_threads' /\ Absent(ThreadBundle, c)']_vars

\* The command the step handled, if it handled one.
CommandStep(op) == ragCalls' # <<>> /\ ragCalls'[1].op = op

\* C38: an activated channel has one activating user, kept until that
\* user deactivates it: an activate in an activated channel and a
\* deactivate by another user change nothing, a channel stops being
\* activated only by the deactivate of its owner, its owner never changes
\* while it is activated, and an automatic chat turn in a channel begins
\* only for a message of the user who activated it.
C38_ActivationIsExclusive ==
    [][/\ \A c \in DOMAIN active_channels :
             /\ CommandStep("activate") /\ ragCalls'[1].thread_id = c
                => /\ active_channels' = active_channels
                   /\ ragCalls'[1].ret.value
                         \in {"already_yours", "already_taken"}
             /\ /\ CommandStep("deactivate") /\ ragCalls'[1].thread_id = c
                /\ ragCalls'[1].user_id # active_channels[c]
                => active_channels' = active_channels
             /\ c \in DOMAIN active_channels'
                => active_channels'[c] = active_channels[c]
             /\ c \notin DOMAIN active_channels'
                => /\ CommandStep("deactivate")
                   /\ ragCalls'[1].thread_id = c
                   /\ ragCalls'[1].user_id = active_channels[c]
       /\ \A c \in DOMAIN active_channels' : ChannelType(c) = "text"
       /\ \A k \in Tasks :
             /\ StepOf(k) /\ tasks[k].pc \in {"idle", "done"}
             /\ tasks'[k].kind = "activated"
             => /\ tasks'[k].channel \in DOMAIN active_channels
                /\ active_channels[tasks'[k].channel] = tasks'[k].user
       /\ \A u \in Users, c \in Channels :
             /\ CommandStep("on_message")
             /\ ragCalls'[1].user_id = u /\ ragCalls'[1].thread_id = c
             => /\ UNCHANGED tasks
                /\ ~(c \in DOMAIN active_channels /\ active_channels[c] = u)
      ]_vars

\* User 1 activated the channel and has an automatic turn in flight there,
\* and user 2's attempt to activate the channel has just been refused.
C38_Witness ==
    /\ 20 \in DOMAIN active_channels /\ active_channels[20] = 1
    /\ ragCalls # <<>>
    /\ ragCalls[1].op = "activate" /\ ragCalls[1].user_id = 2
    /\ ragCalls[1].ret.value = "already_taken"
    /\ tasks[1].kind = "activated" /\ tasks[1].pc = "compose"
    /\ tasks[1].user = 1

=============================================================================
